---- MODULE Spec2Model ----
(***************************************************************************)
(* Verification model of the generic error classifier handleGenericError.  *)
(*                                                                         *)
(* JavaScript values are modelled as tagged records; a JavaScript string   *)
(* is the sequence of its characters, so that trim(), JSON encoding and    *)
(* string equality are computed on the characters themselves.              *)
(***************************************************************************)
EXTENDS Integers, Sequences, FiniteSets, TLC

VARIABLES
    error, result, pc,   \* a call of handleGenericError
    mut,                 \* a mutation made through one of the mutation hooks
    bc,                  \* a rendered Breadcrumbs component
    otpInput,            \* a mounted OtpInput component
    modal,               \* a mounted Modal with its Backdrop
    tabs,                \* a mounted Tabs component and the router's URL
    auth,                \* the useLogout hook, the cookies and the server
    dropdown,            \* a mounted Dropdown component
    accordion            \* a mounted Accordion component

vars == <<error, result, pc, mut, bc, otpInput, modal, tabs, auth, dropdown,
          accordion>>

\* the value of the variables of a component that a specification leaves out
Unused == "unused"

(***************************************************************************)
(* Bounds of the explored input space.                                     *)
(***************************************************************************)
\* longest string drawn for a string-valued position of the input
MaxStrLen == 2
\* longest array drawn for an array-valued position of the input
MaxArrLen == 2

(***************************************************************************)
(* String literals of the source, as character sequences.                  *)
(***************************************************************************)
\* "response"
KEY_RESPONSE ==
    <<"r", "e", "s", "p", "o", "n", "s", "e">>

\* "request"
KEY_REQUEST ==
    <<"r", "e", "q", "u", "e", "s", "t">>

\* "message"
KEY_MESSAGE ==
    <<"m", "e", "s", "s", "a", "g", "e">>

\* "detail"
KEY_DETAIL ==
    <<"d", "e", "t", "a", "i", "l">>

\* "status"
KEY_STATUS ==
    <<"s", "t", "a", "t", "u", "s">>

\* "data"
KEY_DATA ==
    <<"d", "a", "t", "a">>

\* "email"
KEY_EMAIL ==
    <<"e", "m", "a", "i", "l">>

\* "name"
KEY_NAME ==
    <<"n", "a", "m", "e">>

\* "Failed to fetch"
FAILED_TO_FETCH ==
    <<"F", "a", "i", "l", "e", "d", " ", "t", "o", " ", "f", "e", "t", "c", "h">>

\* "Unauthorized. Please log in again."
MSG_UNAUTHORIZED ==
    <<"U", "n", "a", "u", "t", "h", "o", "r", "i", "z", "e", "d", ".", " ", "P", "l", "e", "a", "s", "e", " ", "l", "o", "g", " ", "i", "n", " ", "a", "g", "a", "i", "n", ".">>

\* "You do not have permission to perform this action."
MSG_FORBIDDEN ==
    <<"Y", "o", "u", " ", "d", "o", " ", "n", "o", "t", " ", "h", "a", "v", "e", " ", "p", "e", "r", "m", "i", "s", "s", "i", "o", "n", " ", "t", "o", " ", "p", "e", "r", "f", "o", "r", "m", " ", "t", "h", "i", "s", " ", "a", "c", "t", "i", "o", "n", ".">>

\* "Resource not found."
MSG_NOT_FOUND ==
    <<"R", "e", "s", "o", "u", "r", "c", "e", " ", "n", "o", "t", " ", "f", "o", "u", "n", "d", ".">>

\* "A server error occurred. Please try again later."
MSG_SERVER_ERROR ==
    <<"A", " ", "s", "e", "r", "v", "e", "r", " ", "e", "r", "r", "o", "r", " ", "o", "c", "c", "u", "r", "r", "e", "d", ".", " ", "P", "l", "e", "a", "s", "e", " ", "t", "r", "y", " ", "a", "g", "a", "i", "n", " ", "l", "a", "t", "e", "r", ".">>

\* "An error occurred. Please try again."
MSG_GENERIC ==
    <<"A", "n", " ", "e", "r", "r", "o", "r", " ", "o", "c", "c", "u", "r", "r", "e", "d", ".", " ", "P", "l", "e", "a", "s", "e", " ", "t", "r", "y", " ", "a", "g", "a", "i", "n", ".">>

\* "No response from server. Please check your internet connection."
MSG_NO_RESPONSE ==
    <<"N", "o", " ", "r", "e", "s", "p", "o", "n", "s", "e", " ", "f", "r", "o", "m", " ", "s", "e", "r", "v", "e", "r", ".", " ", "P", "l", "e", "a", "s", "e", " ", "c", "h", "e", "c", "k", " ", "y", "o", "u", "r", " ", "i", "n", "t", "e", "r", "n", "e", "t", " ", "c", "o", "n", "n", "e", "c", "t", "i", "o", "n", ".">>

\* "Network error. Please check your connection."
MSG_NETWORK ==
    <<"N", "e", "t", "w", "o", "r", "k", " ", "e", "r", "r", "o", "r", ".", " ", "P", "l", "e", "a", "s", "e", " ", "c", "h", "e", "c", "k", " ", "y", "o", "u", "r", " ", "c", "o", "n", "n", "e", "c", "t", "i", "o", "n", ".">>

\* "An unexpected error occurred. Please try again."
MSG_UNKNOWN ==
    <<"A", "n", " ", "u", "n", "e", "x", "p", "e", "c", "t", "e", "d", " ", "e", "r", "r", "o", "r", " ", "o", "c", "c", "u", "r", "r", "e", "d", ".", " ", "P", "l", "e", "a", "s", "e", " ", "t", "r", "y", " ", "a", "g", "a", "i", "n", ".">>

\* "null"
JSON_NULL ==
    <<"n", "u", "l", "l">>

\* "true"
JSON_TRUE ==
    <<"t", "r", "u", "e">>

\* "false"
JSON_FALSE ==
    <<"f", "a", "l", "s", "e">>

(***************************************************************************)
(* JavaScript values.                                                      *)
(***************************************************************************)
Undef == [t |-> "undefined"]
Null == [t |-> "null"]
BigInt == [t |-> "bigint"]
Num(n) == [t |-> "number", v |-> n]
Bool(b) == [t |-> "boolean", v |-> b]
Str(s) == [t |-> "string", v |-> s]
Arr(es) == [t |-> "array", v |-> es]
\* an object of class c ("Object" or "TypeError") whose own keys ks, in
\* enumeration order, hold the values vs
Obj(c, ks, vs) == [t |-> "object", c |-> c, k |-> ks, v |-> vs]

\* the outcome of a call: a returned value or a raised exception
Return(v) == [k |-> "return", v |-> v]
Throw == [k |-> "throw"]

\* typeof v
TypeOf(v) ==
    CASE v.t = "null" -> "object"
      [] v.t = "array" -> "object"
      [] OTHER -> v.t

\* Array.isArray(v)
IsArray(v) == v.t = "array"

\* ToBoolean(v), the truthiness an `if` or `&&` tests
Truthy(v) ==
    CASE v.t = "undefined" -> FALSE
      [] v.t = "null" -> FALSE
      [] v.t = "boolean" -> v.v
      [] v.t = "number" -> v.v # 0
      [] v.t = "string" -> Len(v.v) > 0
      [] OTHER -> TRUE

\* v?.key for a key that is no built-in property name: the own property of
\* an object, undefined for every other value
Get(v, key) ==
    IF v.t = "object" /\ \E i \in 1..Len(v.k) : v.k[i] = key
    THEN v.v[CHOOSE i \in 1..Len(v.k) : v.k[i] = key]
    ELSE Undef

\* a[i] with a zero-based index
At(a, i) == IF i + 1 <= Len(a.v) THEN a.v[i + 1] ELSE Undef

\* instanceof TypeError
InstanceOfTypeError(v) == v.t = "object" /\ v.c = "TypeError"

IsWhiteSpace(c) == c = " "

\* String.prototype.trim on a character sequence
RECURSIVE TrimStart(_)
TrimStart(s) ==
    IF s # <<>> /\ IsWhiteSpace(Head(s)) THEN TrimStart(Tail(s)) ELSE s

RECURSIVE TrimEnd(_)
TrimEnd(s) ==
    IF s # <<>> /\ IsWhiteSpace(s[Len(s)])
    THEN TrimEnd(SubSeq(s, 1, Len(s) - 1))
    ELSE s

Trim(s) == TrimEnd(TrimStart(s))

\* typeof v === "string" && v.trim()
NonBlankString(v) == TypeOf(v) = "string" /\ Len(Trim(v.v)) > 0

\* the indices of the own enumerable properties of an object, in enumeration
\* order; the message of an Error instance is not enumerable
EnumerableIdx(o) ==
    SelectSeq([i \in 1..Len(o.k) |-> i],
              LAMBDA i : ~(o.c = "TypeError" /\ o.k[i] = KEY_MESSAGE))

\* Object.values(v) for a non-null value of type "object"
Values(v) ==
    IF IsArray(v)
    THEN v.v
    ELSE LET idx == EnumerableIdx(v) IN [j \in 1..Len(idx) |-> v.v[idx[j]]]

\* Flat with the arrays spliced in at every depth, as flat(Infinity) would
RECURSIVE Flat_Deep(_)
Flat_Deep(vs) ==
    IF vs = <<>>
    THEN <<>>
    ELSE (IF IsArray(Head(vs)) THEN Flat_Deep(Head(vs).v) ELSE <<Head(vs)>>)
         \o Flat_Deep(Tail(vs))

\* Array.prototype.flat(): array elements are spliced in, one level deep
RECURSIVE Flat(_)
Flat(vs) ==
    IF vs = <<>>
    THEN <<>>
    ELSE (IF IsArray(Head(vs)) THEN Head(vs).v ELSE <<Head(vs)>>) \o Flat(Tail(vs))

\* Array.prototype.find with the predicate of line 40; undefined when no
\* element qualifies
RECURSIVE FindNonBlankString(_)
FindNonBlankString(vs) ==
    IF vs = <<>>
    THEN Undef
    ELSE IF NonBlankString(Head(vs)) THEN Head(vs) ELSE FindNonBlankString(Tail(vs))

(***************************************************************************)
(* JSON.stringify.                                                         *)
(***************************************************************************)
DigitChar(d) ==
    CASE d = 0 -> "0" [] d = 1 -> "1" [] d = 2 -> "2" [] d = 3 -> "3" [] d = 4 -> "4"
      [] d = 5 -> "5" [] d = 6 -> "6" [] d = 7 -> "7" [] d = 8 -> "8" [] d = 9 -> "9"

RECURSIVE NatDigits(_)
NatDigits(n) ==
    IF n < 10 THEN <<DigitChar(n)>> ELSE NatDigits(n \div 10) \o <<DigitChar(n % 10)>>

NumberToString(n) == IF n < 0 THEN <<"-">> \o NatDigits(0 - n) ELSE NatDigits(n)

\* QuoteJSONString: the quote and the backslash are escaped
RECURSIVE EscapeChars(_)
EscapeChars(s) ==
    IF s = <<>>
    THEN <<>>
    ELSE (IF Head(s) \in {"\"", "\\"} THEN <<"\\", Head(s)>> ELSE <<Head(s)>>)
         \o EscapeChars(Tail(s))

Quote(s) == <<"\"">> \o EscapeChars(s) \o <<"\"">>

\* a BigInt anywhere in the serialized structure makes JSON.stringify raise
\* a TypeError
RECURSIVE HasBigInt(_)
HasBigInt(v) ==
    CASE v.t = "bigint" -> TRUE
      [] v.t = "array" -> \E i \in 1..Len(v.v) : HasBigInt(v.v[i])
      [] v.t = "object" ->
            LET vs == Values(v) IN \E i \in 1..Len(vs) : HasBigInt(vs[i])
      [] OTHER -> FALSE

RECURSIVE Serialize(_), SerializeElements(_), SerializeProperties(_, _, _)
\* SerializeJSONProperty for a value that is neither undefined nor a BigInt
Serialize(v) ==
    CASE v.t = "null" -> JSON_NULL
      [] v.t = "boolean" -> IF v.v THEN JSON_TRUE ELSE JSON_FALSE
      [] v.t = "number" -> NumberToString(v.v)
      [] v.t = "string" -> Quote(v.v)
      [] v.t = "array" -> <<"[">> \o SerializeElements(v.v) \o <<"]">>
      [] v.t = "object" ->
            <<"{">> \o SerializeProperties(v, EnumerableIdx(v), TRUE) \o <<"}">>

\* SerializeJSONArray: an undefined element is written as null
SerializeElements(vs) ==
    IF vs = <<>>
    THEN <<>>
    ELSE (IF Head(vs).t = "undefined" THEN JSON_NULL ELSE Serialize(Head(vs)))
         \o (IF Len(vs) > 1 THEN <<",">> \o SerializeElements(Tail(vs)) ELSE <<>>)

\* SerializeJSONObject: a property holding undefined is left out
SerializeProperties(o, idx, first) ==
    IF idx = <<>>
    THEN <<>>
    ELSE LET i == Head(idx) IN
         IF o.v[i].t = "undefined"
         THEN SerializeProperties(o, Tail(idx), first)
         ELSE (IF first THEN <<>> ELSE <<",">>)
              \o Quote(o.k[i]) \o <<":">> \o Serialize(o.v[i])
              \o SerializeProperties(o, Tail(idx), FALSE)

\* JSON.stringify(v): a string, undefined for undefined, or a raised TypeError
JSONstringify(v) ==
    IF HasBigInt(v)
    THEN Throw
    ELSE IF v.t = "undefined" THEN Return(Undef) ELSE Return(Str(Serialize(v)))

(***************************************************************************)
(* handleGenericError, branch by branch.                                   *)
(***************************************************************************)
\* no return statement was reached in a block: control falls through
NoReturn == [k |-> "none"]

\* StringBody returning the trimmed body
StringBody_Trimmed(data) ==
    IF TypeOf(data) = "string" /\ Len(Trim(data.v)) > 0
    THEN Return(Str(Trim(data.v)))
    ELSE NoReturn

\* lines 17-19: a body that is a non-blank string is returned as it is
StringBody(data) ==
    IF TypeOf(data) = "string" /\ Len(Trim(data.v)) > 0
    THEN Return(data)
    ELSE NoReturn

\* lines 32 and 35: element 0 of a non-empty message or detail array
FirstElement(a) ==
    IF TypeOf(At(a, 0)) = "string" THEN Return(At(a, 0)) ELSE JSONstringify(At(a, 0))

\* lines 38-40: the first non-blank string among the field values
FieldError(data) == FindNonBlankString(Flat(Values(data)))

\* ObjectBody with the array checks placed before the string checks
ObjectBody_ArraysFirst(data) ==
    IF TypeOf(data) = "object" /\ data # Null
    THEN LET message == Get(data, KEY_MESSAGE)
             detail == Get(data, KEY_DETAIL)
         IN
         IF IsArray(message) /\ Len(message.v) > 0 THEN FirstElement(message)
         ELSE IF IsArray(detail) /\ Len(detail.v) > 0 THEN FirstElement(detail)
         ELSE IF NonBlankString(message) THEN Return(message)
         ELSE IF NonBlankString(detail) THEN Return(detail)
         ELSE LET fieldError == FieldError(data) IN
              IF Truthy(fieldError) THEN Return(fieldError) ELSE NoReturn
    ELSE NoReturn

\* lines 22-44: a body that is a non-null object
ObjectBody(data) ==
    IF TypeOf(data) = "object" /\ data # Null
    THEN LET message == Get(data, KEY_MESSAGE)
             detail == Get(data, KEY_DETAIL)
         IN
         IF NonBlankString(message) THEN Return(message)
         ELSE IF NonBlankString(detail) THEN Return(detail)
         ELSE IF IsArray(message) /\ Len(message.v) > 0 THEN FirstElement(message)
         ELSE IF IsArray(detail) /\ Len(detail.v) > 0 THEN FirstElement(detail)
         ELSE LET fieldError == FieldError(data) IN
              IF Truthy(fieldError) THEN Return(fieldError) ELSE NoReturn
    ELSE NoReturn

\* StatusFallback comparing with == instead of ===, so that "401" counts as 401
StatusFallback_Loose(status) ==
    LET n == IF status.t = "string" /\ status.v = <<"4", "0", "1">> THEN Num(401) ELSE status IN
    IF n = Num(401) THEN Return(Str(MSG_UNAUTHORIZED))
    ELSE IF n = Num(403) THEN Return(Str(MSG_FORBIDDEN))
    ELSE IF n = Num(404) THEN Return(Str(MSG_NOT_FOUND))
    ELSE IF n = Num(500) THEN Return(Str(MSG_SERVER_ERROR))
    ELSE Return(Str(MSG_GENERIC))

\* lines 47-53: the fallback chosen by status === 401, 403, 404, 500
StatusFallback(status) ==
    IF status = Num(401) THEN Return(Str(MSG_UNAUTHORIZED))
    ELSE IF status = Num(403) THEN Return(Str(MSG_FORBIDDEN))
    ELSE IF status = Num(404) THEN Return(Str(MSG_NOT_FOUND))
    ELSE IF status = Num(500) THEN Return(Str(MSG_SERVER_ERROR))
    ELSE Return(Str(MSG_GENERIC))

\* lines 13-53: the body of `if (error?.response)`
ResponseBranch(e) ==
    LET status == Get(Get(e, KEY_RESPONSE), KEY_STATUS)
        data == Get(Get(e, KEY_RESPONSE), KEY_DATA)
    IN
    IF StringBody(data) # NoReturn THEN StringBody(data)
    ELSE IF ObjectBody(data) # NoReturn THEN ObjectBody(data)
    ELSE StatusFallback(status)

\* ArrayBranch looking for the first element that yields a message
ArrayBranch_AnyElement(e) ==
    LET usable(x) == NonBlankString(x) \/ NonBlankString(Get(x, KEY_MESSAGE))
        pick(x) == IF NonBlankString(x) THEN x ELSE Get(x, KEY_MESSAGE)
    IN
    IF \E i \in 1..Len(e.v) : usable(e.v[i])
    THEN Return(pick(e.v[CHOOSE i \in 1..Len(e.v) :
                            usable(e.v[i]) /\ \A j \in 1..(i - 1) : ~usable(e.v[j])]))
    ELSE NoReturn

\* lines 77-84: the body of `if (Array.isArray(error) && error.length > 0)`
ArrayBranch(e) ==
    IF NonBlankString(At(e, 0)) THEN Return(At(e, 0))
    ELSE IF NonBlankString(Get(At(e, 0), KEY_MESSAGE))
    THEN Return(Get(At(e, 0), KEY_MESSAGE))
    ELSE NoReturn

\* handleGenericError testing the request field before the response field
handleGenericError_RequestFirst(e) ==
    IF Truthy(Get(e, KEY_REQUEST)) THEN Return(Str(MSG_NO_RESPONSE))
    ELSE IF Truthy(Get(e, KEY_RESPONSE)) THEN ResponseBranch(e)
    ELSE IF InstanceOfTypeError(e) /\ Get(e, KEY_MESSAGE) = Str(FAILED_TO_FETCH)
    THEN Return(Str(MSG_NETWORK))
    ELSE IF TypeOf(e) = "string" /\ Len(Trim(e.v)) > 0 THEN Return(e)
    ELSE IF NonBlankString(Get(e, KEY_MESSAGE)) THEN Return(Get(e, KEY_MESSAGE))
    ELSE IF IsArray(e) /\ Len(e.v) > 0 /\ ArrayBranch(e) # NoReturn THEN ArrayBranch(e)
    ELSE Return(Str(MSG_UNKNOWN))

\* handleGenericError testing the message field before the request field
handleGenericError_MessageFirst(e) ==
    IF Truthy(Get(e, KEY_RESPONSE)) THEN ResponseBranch(e)
    ELSE IF NonBlankString(Get(e, KEY_MESSAGE)) THEN Return(Get(e, KEY_MESSAGE))
    ELSE IF Truthy(Get(e, KEY_REQUEST)) /\ ~Truthy(Get(e, KEY_RESPONSE))
    THEN Return(Str(MSG_NO_RESPONSE))
    ELSE IF InstanceOfTypeError(e) /\ Get(e, KEY_MESSAGE) = Str(FAILED_TO_FETCH)
    THEN Return(Str(MSG_NETWORK))
    ELSE IF TypeOf(e) = "string" /\ Len(Trim(e.v)) > 0 THEN Return(e)
    ELSE IF IsArray(e) /\ Len(e.v) > 0 /\ ArrayBranch(e) # NoReturn THEN ArrayBranch(e)
    ELSE Return(Str(MSG_UNKNOWN))

\* handleGenericError returning the trimmed message field
handleGenericError_MessageTrimmed(e) ==
    IF Truthy(Get(e, KEY_RESPONSE)) THEN ResponseBranch(e)
    ELSE IF Truthy(Get(e, KEY_REQUEST)) /\ ~Truthy(Get(e, KEY_RESPONSE))
    THEN Return(Str(MSG_NO_RESPONSE))
    ELSE IF InstanceOfTypeError(e) /\ Get(e, KEY_MESSAGE) = Str(FAILED_TO_FETCH)
    THEN Return(Str(MSG_NETWORK))
    ELSE IF TypeOf(e) = "string" /\ Len(Trim(e.v)) > 0 THEN Return(e)
    ELSE IF NonBlankString(Get(e, KEY_MESSAGE))
    THEN Return(Str(Trim(Get(e, KEY_MESSAGE).v)))
    ELSE IF IsArray(e) /\ Len(e.v) > 0 /\ ArrayBranch(e) # NoReturn THEN ArrayBranch(e)
    ELSE Return(Str(MSG_UNKNOWN))

\* handleGenericError returning the trimmed string input
handleGenericError_StringTrimmed(e) ==
    IF Truthy(Get(e, KEY_RESPONSE)) THEN ResponseBranch(e)
    ELSE IF Truthy(Get(e, KEY_REQUEST)) /\ ~Truthy(Get(e, KEY_RESPONSE))
    THEN Return(Str(MSG_NO_RESPONSE))
    ELSE IF InstanceOfTypeError(e) /\ Get(e, KEY_MESSAGE) = Str(FAILED_TO_FETCH)
    THEN Return(Str(MSG_NETWORK))
    ELSE IF TypeOf(e) = "string" /\ Len(Trim(e.v)) > 0 THEN Return(Str(Trim(e.v)))
    ELSE IF NonBlankString(Get(e, KEY_MESSAGE)) THEN Return(Get(e, KEY_MESSAGE))
    ELSE IF IsArray(e) /\ Len(e.v) > 0 /\ ArrayBranch(e) # NoReturn THEN ArrayBranch(e)
    ELSE Return(Str(MSG_UNKNOWN))

\* handleGenericError testing the TypeError class alone, whatever its message
handleGenericError_AnyTypeError(e) ==
    IF Truthy(Get(e, KEY_RESPONSE)) THEN ResponseBranch(e)
    ELSE IF Truthy(Get(e, KEY_REQUEST)) /\ ~Truthy(Get(e, KEY_RESPONSE))
    THEN Return(Str(MSG_NO_RESPONSE))
    ELSE IF InstanceOfTypeError(e) THEN Return(Str(MSG_NETWORK))
    ELSE IF TypeOf(e) = "string" /\ Len(Trim(e.v)) > 0 THEN Return(e)
    ELSE IF NonBlankString(Get(e, KEY_MESSAGE)) THEN Return(Get(e, KEY_MESSAGE))
    ELSE IF IsArray(e) /\ Len(e.v) > 0 /\ ArrayBranch(e) # NoReturn THEN ArrayBranch(e)
    ELSE Return(Str(MSG_UNKNOWN))

\* handleGenericError testing the string input and the message field for
\* emptiness instead of blankness (no trim)
handleGenericError_NoTrim(e) ==
    IF Truthy(Get(e, KEY_RESPONSE)) THEN ResponseBranch(e)
    ELSE IF Truthy(Get(e, KEY_REQUEST)) /\ ~Truthy(Get(e, KEY_RESPONSE))
    THEN Return(Str(MSG_NO_RESPONSE))
    ELSE IF InstanceOfTypeError(e) /\ Get(e, KEY_MESSAGE) = Str(FAILED_TO_FETCH)
    THEN Return(Str(MSG_NETWORK))
    ELSE IF TypeOf(e) = "string" /\ Truthy(e) THEN Return(e)
    ELSE IF TypeOf(Get(e, KEY_MESSAGE)) = "string" /\ Truthy(Get(e, KEY_MESSAGE))
    THEN Return(Get(e, KEY_MESSAGE))
    ELSE IF IsArray(e) /\ Len(e.v) > 0 /\ ArrayBranch(e) # NoReturn THEN ArrayBranch(e)
    ELSE Return(Str(MSG_UNKNOWN))

\* lines 10-88
handleGenericError(e) ==
    IF Truthy(Get(e, KEY_RESPONSE)) THEN ResponseBranch(e)
    ELSE IF Truthy(Get(e, KEY_REQUEST)) /\ ~Truthy(Get(e, KEY_RESPONSE))
    THEN Return(Str(MSG_NO_RESPONSE))
    ELSE IF InstanceOfTypeError(e) /\ Get(e, KEY_MESSAGE) = Str(FAILED_TO_FETCH)
    THEN Return(Str(MSG_NETWORK))
    ELSE IF TypeOf(e) = "string" /\ Len(Trim(e.v)) > 0 THEN Return(e)
    ELSE IF NonBlankString(Get(e, KEY_MESSAGE)) THEN Return(Get(e, KEY_MESSAGE))
    ELSE IF IsArray(e) /\ Len(e.v) > 0 /\ ArrayBranch(e) # NoReturn THEN ArrayBranch(e)
    ELSE Return(Str(MSG_UNKNOWN))

(***************************************************************************)
(* The inputs explored: every shape of the input contract, built from      *)
(* bounded sets of strings and arrays.                                     *)
(***************************************************************************)
Alphabet == {" ", "a", "b"}

\* the strings of at most n characters
Strings(n) == UNION {[1..k -> Alphabet] : k \in 0..n}

\* the arrays of at most n elements drawn from S
Arrays(S, n) == {Arr(es) : es \in UNION {[1..k -> S] : k \in 0..n}}

\* marks a property that the built object does not have
Absent == [t |-> "absent"]

\* the object of class c with the keys ks and values vs, without the absent ones
MkObj(c, ks, vs) ==
    LET idx == SelectSeq([i \in 1..Len(ks) |-> i], LAMBDA i : vs[i] # Absent) IN
    Obj(c, [j \in 1..Len(idx) |-> ks[idx[j]]], [j \in 1..Len(idx) |-> vs[idx[j]]])

Plain(ks, vs) == MkObj("Object", ks, vs)

StringValues == {Str(s) : s \in Strings(MaxStrLen)}

ShortStrings == {Str(<<>>), Str(<<" ">>), Str(<<"a">>), Str(<<"b">>)}

\* the elements of the arrays held by a body
Atoms == ShortStrings \cup {Undef, Num(42), BigInt}

AtomArrays == Arrays(Atoms, MaxArrLen)

\* arrays of arrays and of objects
NestedArrays ==
    { Arr(<<Arr(<<>>)>>),
      Arr(<<Arr(<<Str(<<"a">>)>>)>>),
      Arr(<<Arr(<<Str(<<"b">>)>>), Str(<<"a">>)>>),
      Arr(<<Arr(<<Undef, Str(<<"a">>)>>)>>),
      Arr(<<Arr(<<BigInt>>)>>),
      Arr(<<Null>>),
      Arr(<<Bool(TRUE), Str(<<"a">>)>>),
      Arr(<<Plain(<<KEY_MESSAGE, KEY_NAME>>, <<Str(<<"a">>), Undef>>)>>) }

\* the values a field of the body can hold
FieldValues ==
    StringValues \cup AtomArrays \cup NestedArrays
    \cup {Undef, Null, Num(42), Bool(FALSE), BigInt,
          Plain(<<KEY_MESSAGE>>, <<Str(<<"a">>)>>)}

\* representatives of each class of field value
FewFieldValues ==
    {Absent, Str(<<" ">>), Str(<<"b">>), Arr(<<>>), Arr(<<Num(42), Str(<<"b">>)>>)}

\* bodies with message and detail, and possibly one more field
MessageBodies ==
    { Plain(<<KEY_MESSAGE, KEY_DETAIL, KEY_EMAIL>>, <<m, d, o>>) :
        m \in FieldValues \cup {Absent}, d \in FewFieldValues,
        o \in {Absent, Str(<<"b">>)} }
    \cup
    { Plain(<<KEY_MESSAGE, KEY_DETAIL, KEY_EMAIL>>, <<m, d, o>>) :
        m \in FewFieldValues, d \in FieldValues \cup {Absent},
        o \in {Absent, Str(<<"b">>)} }

\* field-error bodies, possibly with an unusable message after the fields
FieldBodies ==
    { Plain(<<KEY_EMAIL, KEY_NAME, KEY_MESSAGE>>, <<x, y, m>>) :
        x \in FieldValues, y \in FewFieldValues,
        m \in {Absent, Str(<<" ">>), Num(42)} }
    \cup
    { Plain(<<KEY_EMAIL, KEY_NAME, KEY_MESSAGE>>, <<x, y, m>>) :
        x \in FewFieldValues, y \in FieldValues,
        m \in {Absent, Str(<<" ">>), Num(42)} }

Bodies ==
    StringValues \cup AtomArrays \cup NestedArrays \cup MessageBodies \cup FieldBodies
    \cup {Absent, Null, Num(42), Bool(TRUE), BigInt}

\* bodies that carry no message, of every kind
FewBodies ==
    { Absent, Null, Str(<<>>), Str(<<" ">>), Num(0), Bool(TRUE), Arr(<<>>),
      Plain(<<>>, <<>>),
      Plain(<<KEY_MESSAGE>>, <<Str(<<" ">>)>>),
      Plain(<<KEY_EMAIL>>, <<Arr(<<Arr(<<Str(<<"a">>)>>)>>)>>),
      Plain(<<KEY_MESSAGE>>, <<Arr(<<Num(42)>>)>>),
      Plain(<<KEY_DETAIL>>, <<Arr(<<Str(<<>>)>>)>>),
      Plain(<<KEY_EMAIL>>, <<Arr(<<Str(<<"a">>)>>)>>),
      Str(<<"a">>) }

Statuses ==
    {Absent, Num(400), Num(401), Num(403), Num(404), Num(500), Str(<<"4", "0", "1">>)}

Responses ==
    { Plain(<<KEY_STATUS, KEY_DATA>>, <<s, d>>) : s \in {Absent, Num(401)}, d \in Bodies }
    \cup
    { Plain(<<KEY_STATUS, KEY_DATA>>, <<s, d>>) : s \in Statuses, d \in FewBodies }

\* values of the response field of an input that has other fields too
FewResponses ==
    { Absent, Undef, Null, Num(0), Str(<<>>), Bool(FALSE), Bool(TRUE), Str(<<"a">>),
      Arr(<<>>),
      Plain(<<KEY_STATUS>>, <<Num(404)>>),
      Plain(<<KEY_STATUS, KEY_DATA>>, <<Num(500), Str(<<"a", " ">>)>>),
      Plain(<<KEY_DATA>>, <<Plain(<<KEY_MESSAGE>>, <<Str(<<"b">>)>>)>>),
      Plain(<<KEY_STATUS, KEY_DATA>>, <<Num(403), Plain(<<>>, <<>>)>>) }

Requests == {Absent, Undef, Null, Plain(<<>>, <<>>)}

Messages == StringValues \cup {Absent, Str(FAILED_TO_FETCH), Num(42)}

\* objects and TypeError instances with any of response, request, message
ErrorObjects ==
    { MkObj(c, <<KEY_MESSAGE, KEY_REQUEST, KEY_RESPONSE>>, <<m, q, r>>) :
        c \in {"Object", "TypeError"}, m \in Messages, q \in Requests,
        r \in FewResponses }
    \cup
    { Plain(<<KEY_RESPONSE>>, <<r>>) : r \in Responses }

\* the elements of an input that is an array
ErrorElements ==
    Atoms
    \cup { Plain(<<KEY_MESSAGE>>, <<s>>) : s \in ShortStrings }
    \cup { Plain(<<KEY_MESSAGE>>, <<Num(42)>>),
           Obj("TypeError", <<KEY_MESSAGE>>, <<Str(FAILED_TO_FETCH)>>) }

Inputs ==
    {Undef, Null, Num(0), Num(42), Bool(FALSE), Bool(TRUE), BigInt}
    \cup StringValues \cup Arrays(ErrorElements, MaxArrLen) \cup ErrorObjects

(***************************************************************************)
(* The state machine: a caller holds an error value and calls the          *)
(* classifier on it once.                                                  *)
(***************************************************************************)
Init ==
    /\ error \in Inputs
    /\ result = NoReturn
    /\ pc = "ready"
    /\ mut = Unused
    /\ bc = Unused
    /\ otpInput = Unused
    /\ modal = Unused
    /\ tabs = Unused
    /\ auth = Unused
    /\ dropdown = Unused
    /\ accordion = Unused

\* the call handleGenericError(error)
Call ==
    /\ pc = "ready"
    /\ result' = handleGenericError(error)
    /\ pc' = "done"
    /\ UNCHANGED <<error, mut, bc, otpInput, modal, tabs, auth, dropdown,
                      accordion>>

Next == Call

Spec == Init /\ [][Next]_vars

(***************************************************************************)
(* The mutation hooks of useApi.ts: useCreateData, useUpdateData,          *)
(* usePatchData, useDeleteData and useDynamicPatchData hand useMutation    *)
(* the same onSuccess and onError callbacks followed by ...options.        *)
(* useMutation calls the onSuccess of the merged options when mutationFn   *)
(* resolves and their onError when it rejects; an exception raised by      *)
(* onError becomes the rejection of the mutation.                          *)
(***************************************************************************)
Hooks ==
    {"useCreateData", "useUpdateData", "usePatchData", "useDeleteData",
     "useDynamicPatchData"}

\* a callback option of the caller: the key is absent from options, holds
\* undefined, or holds a function
OptionKinds == {"absent", "undefined", "function"}

\* the options argument: not given, or an object with any of the callbacks
MutationOptions ==
    {[given |-> FALSE, onSuccess |-> "absent", onError |-> "absent"]}
    \cup [given : {TRUE}, onSuccess : OptionKinds, onError : OptionKinds]

QueryKeys ==
    {Undef, Str(<<>>), Str(<<"a">>), Arr(<<>>), Arr(<<Str(<<"a">>), Num(42)>>)}

\* what process.env.NODE_ENV holds
Environments == {"production", "development"}

\* the values mutationFn resolves with
MutationResponses == {Null, Plain(<<KEY_DATA>>, <<Str(<<"a">>)>>)}

\* the values mutationFn rejects with
MutationErrors ==
    { Str(<<"a">>),
      Plain(<<>>, <<>>),
      Plain(<<KEY_REQUEST>>, <<Plain(<<>>, <<>>)>>),
      Obj("TypeError", <<KEY_MESSAGE>>, <<Str(FAILED_TO_FETCH)>>),
      Plain(<<KEY_RESPONSE>>, <<Plain(<<KEY_STATUS>>, <<Num(404)>>)>>),
      Plain(<<KEY_RESPONSE>>,
            <<Plain(<<KEY_DATA>>, <<Plain(<<KEY_MESSAGE>>, <<Str(<<"b">>)>>)>>)>>),
      Plain(<<KEY_RESPONSE>>,
            <<Plain(<<KEY_DATA>>, <<Plain(<<KEY_MESSAGE>>, <<Arr(<<Undef>>)>>)>>)>>),
      Plain(<<KEY_RESPONSE>>,
            <<Plain(<<KEY_DATA>>, <<Plain(<<KEY_MESSAGE>>, <<Arr(<<BigInt>>)>>)>>)>>) }

\* what a callback did, in order: the calls it made and the exception that
\* ended it, if any
NotRaised == [k |-> "none"]
Ran(events, raised) == [events |-> events, raised |-> raised]

\* new Error(message).message: undefined gives the empty message
ErrorOf(message) ==
    [k |-> "Error", message |-> IF message = Undef THEN Str(<<>>) ELSE message]

\* lines 22-32
invalidateQuery(queryKey) ==
    IF ~Truthy(queryKey) THEN <<>>
    ELSE IF IsArray(queryKey)
    THEN <<[ev |-> "invalidateQueries", key |-> queryKey]>>
    ELSE <<[ev |-> "invalidateQueries", key |-> Arr(<<queryKey>>)]>>

\* lines 37-45
handleMutationError(e, env) ==
    LET r == handleGenericError(e) IN
    IF r = Throw
    THEN Ran(<<>>, [k |-> "TypeError"])
    ELSE Ran(<<[ev |-> "toast.error", text |-> r.v]>>
             \o (IF env # "production"
                 THEN <<[ev |-> "console.error", text |-> r.v]>>
                 ELSE <<>>),
             ErrorOf(r.v))

\* lines 78-82: the onSuccess the hook defines
HookOnSuccess(m, response) ==
    Ran(invalidateQuery(m.queryKey)
        \o (IF m.options.onSuccess = "function"
            THEN <<[ev |-> "options.onSuccess", arg |-> response]>>
            ELSE <<>>),
        NotRaised)

\* lines 83-86: the onError the hook defines
HookOnError(m, e) ==
    LET h == handleMutationError(e, m.env) IN
    IF h.raised # NotRaised
    THEN h
    ELSE Ran(h.events
             \o (IF m.options.onError = "function"
                 THEN <<[ev |-> "options.onError", arg |-> e]>>
                 ELSE <<>>),
             NotRaised)

\* lines 76-88: { onSuccess, onError, ...options }: a key of options replaces
\* the callback of the hook, also when it holds undefined
MergedOnSuccess(m, response) ==
    IF m.options.onSuccess = "absent" THEN HookOnSuccess(m, response)
    ELSE IF m.options.onSuccess = "function"
    THEN Ran(<<[ev |-> "options.onSuccess", arg |-> response]>>, NotRaised)
    ELSE Ran(<<>>, NotRaised)

MergedOnError(m, e) ==
    IF m.options.onError = "absent" THEN HookOnError(m, e)
    ELSE IF m.options.onError = "function"
    THEN Ran(<<[ev |-> "options.onError", arg |-> e]>>, NotRaised)
    ELSE Ran(<<>>, NotRaised)

InitApi ==
    /\ mut \in [hook : Hooks, options : MutationOptions, queryKey : QueryKeys,
                env : Environments, phase : {"idle"}, log : {<<>>},
                settled : {NotRaised}]
    /\ error = Unused
    /\ result = Unused
    /\ pc = Unused
    /\ bc = Unused
    /\ otpInput = Unused
    /\ modal = Unused
    /\ tabs = Unused
    /\ auth = Unused
    /\ dropdown = Unused
    /\ accordion = Unused

\* the component calls mutate(variables): mutationFn sends the request
Mutate ==
    /\ mut.phase = "idle"
    /\ mut' = [mut EXCEPT !.phase = "pending"]
    /\ UNCHANGED <<error, result, pc, bc, otpInput, modal, tabs, auth, dropdown,
                      accordion>>

\* mutationFn resolves: useMutation runs the merged onSuccess
MutationSucceeds ==
    /\ mut.phase = "pending"
    /\ \E response \in MutationResponses :
          LET ran == MergedOnSuccess(mut, response) IN
          mut' = [mut EXCEPT !.phase = "success",
                             !.log = ran.events,
                             !.settled = [k |-> "resolved", v |-> response]]
    /\ UNCHANGED <<error, result, pc, bc, otpInput, modal, tabs, auth, dropdown,
                      accordion>>

\* mutationFn rejects: useMutation runs the merged onError; the mutation
\* rejects with what onError raised, else with the error itself
MutationFails ==
    /\ mut.phase = "pending"
    /\ \E e \in MutationErrors :
          LET ran == MergedOnError(mut, e) IN
          mut' = [mut EXCEPT !.phase = "error",
                             !.log = ran.events,
                             !.settled = [k |-> "rejected", cause |-> e,
                                          raised |-> IF ran.raised # NotRaised
                                                     THEN ran.raised
                                                     ELSE [k |-> "cause"]]]
    /\ UNCHANGED <<error, result, pc, bc, otpInput, modal, tabs, auth, dropdown,
                      accordion>>

NextApi == Mutate \/ MutationSucceeds \/ MutationFails

SpecApi == InitApi /\ [][NextApi]_vars

(***************************************************************************)
(* The Breadcrumbs component: the entries it renders from its props and    *)
(* what a click or a key press on an entry does.                           *)
(***************************************************************************)
\* longest items list passed to Breadcrumbs
MaxCrumbs == 3

NoHref == <<>>
NoHandler == 0

CrumbLetter(i) == CASE i = 1 -> "p" [] i = 2 -> "q" [] i = 3 -> "r" [] OTHER -> "s"

\* item i of the caller: a label of i letters, with or without an href and
\* an onClick of its own
Crumb(i, hasHref, hasOnClick) ==
    [label |-> [j \in 1..i |-> CrumbLetter(i)],
     href |-> IF hasHref THEN <<"/", CrumbLetter(i)>> ELSE NoHref,
     icon |-> FALSE,
     onClick |-> IF hasOnClick THEN i ELSE NoHandler]

\* the items lists of at most n items
CrumbLists(n) ==
    UNION { { [i \in 1..k |-> Crumb(i, h[i], c[i])] :
                h \in [1..k -> BOOLEAN], c \in [1..k -> BOOLEAN] } : k \in 0..n }

\* the props: maxItems 0 stands for a maxItems that is not given
BreadcrumbsProps ==
    [items : CrumbLists(MaxCrumbs), maxItems : 0..(MaxCrumbs + 2),
     showHomeIcon : BOOLEAN, truncateLongLabels : BOOLEAN, maxLabelLength : {2}]

\* Array.prototype.slice(start) and slice(start, end)
SliceIndex(a, i) == IF i < 0 THEN (IF Len(a) + i < 0 THEN 0 ELSE Len(a) + i)
                    ELSE (IF i > Len(a) THEN Len(a) ELSE i)

Slice(a, start, end) == SubSeq(a, SliceIndex(a, start) + 1, SliceIndex(a, end))

SliceFrom(a, start) == Slice(a, start, Len(a))

\* line 105, with the defaults of lines 92-93
HomeItem ==
    [label |-> <<"H", "o", "m", "e">>, href |-> <<"/">>, icon |-> TRUE,
     onClick |-> NoHandler]

\* line 113
EllipsisItem ==
    [label |-> <<".", ".", ".">>, href |-> NoHref, icon |-> FALSE, onClick |-> NoHandler]

\* lines 104-106
AllItems(props) == IF props.showHomeIcon THEN <<HomeItem>> \o props.items ELSE props.items

\* lines 109-116
DisplayItems(props) ==
    LET allItems == AllItems(props) IN
    IF props.maxItems # 0 /\ Len(allItems) > props.maxItems
    THEN Slice(allItems, 0, 1) \o <<EllipsisItem>>
         \o SliceFrom(allItems, 0 - (props.maxItems - 2))
    ELSE allItems

\* lines 119-125
ProcessedItems(props) ==
    LET displayItems == DisplayItems(props) IN
    [i \in 1..Len(displayItems) |->
        [displayItems[i] EXCEPT
            !.label = IF props.truncateLongLabels /\ Len(@) > props.maxLabelLength
                      THEN SubSeq(@, 1, props.maxLabelLength) \o <<".", ".", ".">>
                      ELSE @]]

\* handleItemClick acting on the last entry too
handleItemClick_AnyIndex(items, index) ==
    IF items[index + 1].onClick # NoHandler
    THEN <<[ev |-> "onClick", handler |-> items[index + 1].onClick]>>
    ELSE IF items[index + 1].href # NoHref
    THEN <<[ev |-> "navigate", href |-> items[index + 1].href]>>
    ELSE <<>>

\* lines 151-159: what handleItemClick(item, index) does, index from 0
handleItemClick(items, index) ==
    IF index = Len(items) - 1 THEN <<>>
    ELSE IF items[index + 1].onClick # NoHandler
    THEN <<[ev |-> "onClick", handler |-> items[index + 1].onClick]>>
    ELSE IF items[index + 1].href # NoHref
    THEN <<[ev |-> "navigate", href |-> items[index + 1].href]>>
    ELSE <<>>

\* lines 170-171
IsActive(items, index) == index = Len(items) - 1

IsClickable(items, index) ==
    ~IsActive(items, index)
    /\ (items[index + 1].href # NoHref \/ items[index + 1].onClick # NoHandler)

Keys == {"Enter", " ", "a"}

\* the component is rendered with some props
InitBreadcrumbs ==
    /\ \E props \in BreadcrumbsProps :
          bc = [props |-> props, entries |-> ProcessedItems(props),
                gesture |-> "none", target |-> 0, effects |-> <<>>]
    /\ error = Unused
    /\ result = Unused
    /\ pc = Unused
    /\ mut = Unused
    /\ otpInput = Unused
    /\ modal = Unused
    /\ tabs = Unused
    /\ auth = Unused
    /\ dropdown = Unused
    /\ accordion = Unused

\* line 183: a click on the entry at index
ClickEntry ==
    /\ bc.gesture = "none"
    /\ \E index \in 0..(Len(bc.entries) - 1) :
          bc' = [bc EXCEPT !.gesture = "click", !.target = index,
                           !.effects = handleItemClick(bc.entries, index)]
    /\ UNCHANGED <<error, result, pc, mut, otpInput, modal, tabs, auth, dropdown,
                      accordion>>

\* lines 186-191: a key pressed on the entry at index
KeyDownEntry ==
    /\ bc.gesture = "none"
    /\ \E index \in 0..(Len(bc.entries) - 1), key \in Keys :
          bc' = [bc EXCEPT !.gesture = key, !.target = index,
                           !.effects = IF IsClickable(bc.entries, index)
                                          /\ (key = "Enter" \/ key = " ")
                                       THEN handleItemClick(bc.entries, index)
                                       ELSE <<>>]
    /\ UNCHANGED <<error, result, pc, mut, otpInput, modal, tabs, auth, dropdown,
                      accordion>>

NextBreadcrumbs == ClickEntry \/ KeyDownEntry

SpecBreadcrumbs == InitBreadcrumbs /\ [][NextBreadcrumbs]_vars

(***************************************************************************)
(* The OtpInput component: one box per digit, the boxes' contents in the   *)
(* otp state, and the calls of onComplete.                                 *)
(***************************************************************************)
\* largest length prop
MaxOtpLength == 2

DecimalDigits == {"0", "1", "2", "3", "4", "5", "6", "7", "8", "9"}

\* /^\d*$/.test(value)
DigitsOnly(value) == \A i \in 1..Len(value) : value[i] \in DecimalDigits

\* Array.prototype.join("")
RECURSIVE Join(_)
Join(boxes) == IF boxes = <<>> THEN <<>> ELSE Head(boxes) \o Join(Tail(boxes))

\* what the user can make the value of a box: empty, a digit, a letter, or a
\* digit typed after the digit that was there
TypedValues == {<<>>, <<"1">>, <<"2">>, <<"x">>, <<"1", "2">>}

\* the clipboard texts: up to one character more than there are boxes
ClipboardTexts(length) == UNION {[1..k -> {"1", "2", "x"}] : k \in 0..(length + 1)}

\* handlePaste without the test of line 190
handlePaste_NoTest(o, text) ==
    LET pastedData == Slice(text, 0, o.length)
        newOtp == [i \in 1..Len(pastedData) |-> <<pastedData[i]>>]
    IN  [otp |-> newOtp \o [i \in 1..(o.length - Len(newOtp)) |-> <<>>],
         focus |-> IF Len(newOtp) > 0 THEN Len(newOtp) - 1 ELSE o.focus,
         calls |-> IF Len(newOtp) = o.length THEN <<Join(newOtp)>> ELSE <<>>]

\* lines 152-172: handleChange(value, index), index from 0
handleChange(o, value, index) ==
    IF ~DigitsOnly(value) THEN [otp |-> o.otp, focus |-> o.focus, calls |-> <<>>]
    ELSE
    LET newOtp == [o.otp EXCEPT ![index + 1] = SliceFrom(value, 0 - 1)] IN
    [otp |-> newOtp,
     focus |-> IF value # <<>> /\ index < o.length - 1 THEN index + 1 ELSE o.focus,
     calls |-> IF \A i \in 1..Len(newOtp) : newOtp[i] # <<>>
               THEN <<Join(newOtp)>> ELSE <<>>]

\* lines 175-182: handleKeyDown(e, index)
handleKeyDown(o, key, index) ==
    [otp |-> o.otp,
     focus |-> IF key = "Backspace" /\ o.otp[index + 1] = <<>> /\ index > 0
               THEN index - 1 ELSE o.focus,
     calls |-> <<>>]

\* lines 185-200: handlePaste(e), text the clipboard's text
handlePaste(o, text) ==
    LET pastedData == Slice(text, 0, o.length) IN
    IF ~DigitsOnly(pastedData) THEN [otp |-> o.otp, focus |-> o.focus, calls |-> <<>>]
    ELSE
    LET newOtp == [i \in 1..Len(pastedData) |-> <<pastedData[i]>>] IN
    [otp |-> newOtp \o [i \in 1..(o.length - Len(newOtp)) |-> <<>>],
     focus |-> IF Len(newOtp) > 0 THEN Len(newOtp) - 1 ELSE o.focus,
     calls |-> IF Len(newOtp) = o.length THEN <<Join(newOtp)>> ELSE <<>>]

\* the state an event leaves: what the handler did, and the event itself
AfterEvent(o, done, event) ==
    [length |-> o.length, otp |-> done.otp, focus |-> done.focus,
     calls |-> done.calls, event |-> event]

\* line 150: the component is mounted with all boxes empty
InitOtp ==
    /\ \E length \in 1..MaxOtpLength :
          otpInput = [length |-> length, otp |-> [i \in 1..length |-> <<>>],
                      focus |-> 0 - 1, calls |-> <<>>,
                      event |-> [kind |-> "mount"]]
    /\ error = Unused
    /\ result = Unused
    /\ pc = Unused
    /\ mut = Unused
    /\ bc = Unused
    /\ modal = Unused
    /\ tabs = Unused
    /\ auth = Unused
    /\ dropdown = Unused
    /\ accordion = Unused

\* the user puts the focus in one of the boxes of lines 204-228
FocusBox ==
    /\ \E index \in 0..(otpInput.length - 1) :
          otpInput' = [otpInput EXCEPT !.focus = index, !.calls = <<>>,
                                       !.event = [kind |-> "focus"]]
    /\ UNCHANGED <<error, result, pc, mut, bc, modal, tabs, auth, dropdown,
                      accordion>>

\* lines 214-216: the value of the focused box changes
Change ==
    /\ otpInput.focus >= 0
    /\ \E value \in TypedValues :
          otpInput' = AfterEvent(otpInput,
                                 handleChange(otpInput, value, otpInput.focus),
                                 [kind |-> "change", value |-> value])
    /\ UNCHANGED <<error, result, pc, mut, bc, modal, tabs, auth, dropdown,
                      accordion>>

\* lines 217-219: a key goes down in the focused box
KeyDown ==
    /\ otpInput.focus >= 0
    /\ \E key \in {"Backspace", "1"} :
          otpInput' = AfterEvent(otpInput,
                                 handleKeyDown(otpInput, key, otpInput.focus),
                                 [kind |-> "keydown", key |-> key])
    /\ UNCHANGED <<error, result, pc, mut, bc, modal, tabs, auth, dropdown,
                      accordion>>

\* line 220: the user pastes in the focused box
Paste ==
    /\ otpInput.focus >= 0
    /\ \E text \in ClipboardTexts(otpInput.length) :
          otpInput' = AfterEvent(otpInput, handlePaste(otpInput, text),
                                 [kind |-> "paste", text |-> text])
    /\ UNCHANGED <<error, result, pc, mut, bc, modal, tabs, auth, dropdown,
                      accordion>>

NextOtp == FocusBox \/ Change \/ KeyDown \/ Paste

SpecOtp == InitOtp /\ [][NextOtp]_vars

(***************************************************************************)
(* The Modal and its Backdrop: the show prop, the effects that follow a    *)
(* change of it, and the timers the effects start.  Time passes in steps   *)
(* of TICK_MS milliseconds; a timer holds the time left until it fires.    *)
(***************************************************************************)
\* the delay of the Backdrop's timer (line 266) and of the Modal's (line 35)
BACKDROP_HIDE_MS == 200
MODAL_SHOW_MS == 100
TICK_MS == 50

NoTimer == 0 - 1

\* lines 260-274: the cleanup of the effect's last run, then the effect
BackdropEffect(m) ==
    IF m.show
    THEN [m EXCEPT !.visible = TRUE, !.overflow = "hidden"]
    ELSE [m EXCEPT !.hideTimers = @ \cup {BACKDROP_HIDE_MS}, !.overflow = "unset"]

\* lines 33-40: the cleanup clears the timer of the last run, then the effect
ModalEffect(m) ==
    IF m.show
    THEN [m EXCEPT !.showTimer = MODAL_SHOW_MS]
    ELSE [m EXCEPT !.showTimer = NoTimer, !.delayShow = FALSE]

\* lines 31 and 258: the first render, the effects still to run
InitModal ==
    /\ \E show \in BOOLEAN :
          modal = [show |-> show, pending |-> TRUE, visible |-> show,
                   overflow |-> "initial", hideTimers |-> {},
                   delayShow |-> FALSE, showTimer |-> NoTimer]
    /\ error = Unused
    /\ result = Unused
    /\ pc = Unused
    /\ mut = Unused
    /\ bc = Unused
    /\ otpInput = Unused
    /\ tabs = Unused
    /\ auth = Unused
    /\ dropdown = Unused
    /\ accordion = Unused

\* the parent renders the Modal with the other value of show
SetShow ==
    /\ ~modal.pending
    /\ modal' = [modal EXCEPT !.show = ~@, !.pending = TRUE]
    /\ UNCHANGED <<error, result, pc, mut, bc, otpInput, tabs, auth, dropdown,
                      accordion>>

\* the effects that depend on show run: the Backdrop's, then the Modal's
RunEffects ==
    /\ modal.pending
    /\ modal' = [ModalEffect(BackdropEffect(modal)) EXCEPT !.pending = FALSE]
    /\ UNCHANGED <<error, result, pc, mut, bc, otpInput, tabs, auth, dropdown,
                      accordion>>

\* line 266: a timer of the Backdrop fires
HideTimerFires ==
    /\ 0 \in modal.hideTimers
    /\ modal' = [modal EXCEPT !.visible = FALSE, !.hideTimers = @ \ {0}]
    /\ UNCHANGED <<error, result, pc, mut, bc, otpInput, tabs, auth, dropdown,
                      accordion>>

\* line 35: the timer of the Modal fires
ShowTimerFires ==
    /\ modal.showTimer = 0
    /\ modal' = [modal EXCEPT !.delayShow = TRUE, !.showTimer = NoTimer]
    /\ UNCHANGED <<error, result, pc, mut, bc, otpInput, tabs, auth, dropdown,
                      accordion>>

\* TICK_MS milliseconds pass: no effect is waiting and no timer is due
Tick ==
    /\ ~modal.pending
    /\ 0 \notin modal.hideTimers
    /\ modal.showTimer # 0
    /\ modal.hideTimers # {} \/ modal.showTimer # NoTimer
    /\ modal' = [modal EXCEPT
                    !.hideTimers = {t - TICK_MS : t \in @},
                    !.showTimer = IF @ = NoTimer THEN NoTimer ELSE @ - TICK_MS]
    /\ UNCHANGED <<error, result, pc, mut, bc, otpInput, tabs, auth, dropdown,
                      accordion>>

NextModal == SetShow \/ RunEffects \/ HideTimerFires \/ ShowTimerFires \/ Tick

SpecModal == InitModal /\ [][NextModal]_vars

(***************************************************************************)
(* The Tabs component: the active tab, the query parameter paramKey of the *)
(* URL, and the router.replace calls that have not reached the URL yet.    *)
(* The URL is held as what searchParams.get(paramKey) returns.             *)
(***************************************************************************)
\* longest tabs list
MaxTabs == 3
\* most router.replace calls waiting to reach the URL
MaxPending == 3
\* most tab clicks and URL changes made by the user
MaxUserEvents == 2

\* String.prototype.toLowerCase, on the letters of the labels
LowerCase(c) == CASE c = "A" -> "a" [] c = "B" -> "b" [] c = "C" -> "c" [] OTHER -> c

RECURSIVE ReplaceWhiteSpace(_)
\* replace(/\s+/g, "-")
ReplaceWhiteSpace(s) ==
    IF s = <<>> THEN <<>>
    ELSE IF IsWhiteSpace(Head(s))
    THEN <<"-">> \o ReplaceWhiteSpace(TrimStart(s))
    ELSE <<Head(s)>> \o ReplaceWhiteSpace(Tail(s))

\* lines 28-30
getFormattedLabel(label) == ReplaceWhiteSpace([i \in 1..Len(label) |-> LowerCase(label[i])])

\* the labels of the tabs: two of them have the same formatted label
TabLabels == {<<"A", " ", "b">>, <<"a", "-", "b">>, <<"C">>}

\* getFormattedLabel on the labels of the tabs, computed once
FormattedLabel == [label \in TabLabels |-> getFormattedLabel(label)]

\* the tabs lists: pairwise different labels (line 119 uses them as keys)
TabLists ==
    UNION { { [i \in 1..n |-> [label |-> l[i], inActive |-> a[i]]] :
                l \in {f \in [1..n -> TabLabels] :
                          \A i, j \in 1..n : f[i] = f[j] => i = j},
                a \in [1..n -> BOOLEAN] } : n \in 1..MaxTabs }

\* what searchParams.get(paramKey) can return
ParamValues ==
    {Null, Str(<<>>), Str(<<"a", "-", "b">>), Str(<<"c">>), Str(<<"z">>)}

\* tabs.findIndex(tab => getFormattedLabel(tab.label) === label), from 0
FindTab(list, label) ==
    LET hits == {i \in 1..Len(list) : Str(FormattedLabel[list[i].label]) = label} IN
    IF hits = {} THEN 0 - 1 ELSE (CHOOSE i \in hits : \A j \in hits : i <= j) - 1

\* line 69: getFormattedLabel(tabs[activeTab]?.label ?? "")
ActiveLabel(t) ==
    IF t.activeTab + 1 \in 1..Len(t.list)
    THEN Str(FormattedLabel[t.list[t.activeTab + 1].label])
    ELSE Str(<<>>)

\* lines 48-62
initialActiveTab(list, activateParams, initialTabIndex, param) ==
    LET initialTabLabel == IF ~activateParams THEN Null ELSE param IN
    IF initialTabIndex # Undef THEN initialTabIndex.v
    ELSE IF Truthy(initialTabLabel)
    THEN (IF FindTab(list, initialTabLabel) # 0 - 1
          THEN FindTab(list, initialTabLabel) ELSE 0)
    ELSE 0

\* router.replace(url): the navigation waits to reach the URL; it either
\* takes the place of the navigations still waiting or waits behind them
RouterReplace(t, value, discard) ==
    [t EXCEPT !.pending = IF discard THEN <<value>> ELSE Append(@, value),
              !.effects = Append(@, [ev |-> "router.replace", value |-> value])]

\* lines 67-75: the effect that follows a render with a new activeTab
UrlEffect(t, discard) ==
    IF ~t.activateParams THEN t ELSE RouterReplace(t, ActiveLabel(t), discard)

\* lines 78-88: the effect that follows a render with new searchParams, and
\* the render and first effect that its setActiveTab brings
TabEffect(t, discard) ==
    IF ~t.activateParams \/ ~Truthy(t.url) THEN t
    ELSE LET idx == FindTab(t.list, t.url) IN
         IF idx # 0 - 1 /\ idx # t.activeTab
         THEN UrlEffect([t EXCEPT !.activeTab = idx], discard)
         ELSE t

\* lines 90-103, and the render and first effect that setActiveTab brings
handleTabClick(t, index, discard) ==
    IF t.list[index + 1].inActive
    THEN [t EXCEPT !.effects = Append(@, [ev |-> "toast.info"])]
    ELSE
    LET called == [t EXCEPT !.activeTab = index,
                            !.effects = Append(@, [ev |-> "onTabChange",
                                                   index |-> index])]
        replaced == IF t.activateParams
                    THEN RouterReplace(called, ActiveLabel(called), discard)
                    ELSE called
    IN  IF index # t.activeTab THEN UrlEffect(replaced, discard) ELSE replaced

\* the first render: lines 43-64
InitTabs ==
    /\ \E list \in TabLists, activateParams \in BOOLEAN, param \in ParamValues :
       \E initialTabIndex \in {Undef} \cup {Num(i) : i \in 0..(Len(list) - 1)} :
          tabs = [list |-> list, activateParams |-> activateParams,
                  activeTab |-> initialActiveTab(list, activateParams,
                                                 initialTabIndex, param),
                  url |-> param, pending |-> <<>>, mounted |-> FALSE,
                  userEvents |-> 0, last |-> "render", effects |-> <<>>]
    /\ error = Unused
    /\ result = Unused
    /\ pc = Unused
    /\ mut = Unused
    /\ bc = Unused
    /\ otpInput = Unused
    /\ modal = Unused
    /\ auth = Unused
    /\ dropdown = Unused
    /\ accordion = Unused

\* the effects of the first render run, in the order of the source
MountTabs ==
    /\ ~tabs.mounted
    /\ \E discard \in BOOLEAN :
          tabs' = TabEffect(UrlEffect([tabs EXCEPT !.mounted = TRUE,
                                                   !.last = "mount",
                                                   !.effects = <<>>], discard),
                            discard)
    /\ UNCHANGED <<error, result, pc, mut, bc, otpInput, modal, auth, dropdown,
                   accordion>>

\* line 125: the user clicks the button of a tab
ClickTab ==
    /\ tabs.mounted
    /\ tabs.userEvents < MaxUserEvents
    /\ \E index \in 0..(Len(tabs.list) - 1), discard \in BOOLEAN :
          /\ tabs' = handleTabClick([tabs EXCEPT !.userEvents = @ + 1,
                                                  !.last = "click",
                                                  !.effects = <<>>],
                                     index, discard)
          /\ Len(tabs'.pending) <= MaxPending
    /\ UNCHANGED <<error, result, pc, mut, bc, otpInput, modal, auth, dropdown,
                   accordion>>

\* the URL changes from outside the component (browser navigation); the
\* navigations still waiting arrive after it
ChangeUrl ==
    /\ tabs.mounted
    /\ tabs.userEvents < MaxUserEvents
    /\ \E value \in ParamValues \ {tabs.url}, discard \in BOOLEAN :
          tabs' = TabEffect([tabs EXCEPT !.url = value,
                                         !.userEvents = @ + 1,
                                         !.last = "url",
                                         !.effects = <<>>], discard)
    /\ UNCHANGED <<error, result, pc, mut, bc, otpInput, modal, auth, dropdown,
                   accordion>>

\* the oldest waiting navigation reaches the URL; the component renders
\* with the new searchParams if the parameter changed
CommitReplace ==
    /\ tabs.mounted
    /\ tabs.pending # <<>>
    /\ \E discard \in BOOLEAN :
          LET arrived == [tabs EXCEPT !.url = Head(tabs.pending),
                                      !.pending = Tail(@),
                                      !.last = "commit",
                                      !.effects = <<>>]
          IN  tabs' = IF arrived.url # tabs.url THEN TabEffect(arrived, discard)
                      ELSE arrived
    /\ UNCHANGED <<error, result, pc, mut, bc, otpInput, modal, auth, dropdown,
                   accordion>>

NextTabs == MountTabs \/ ClickTab \/ ChangeUrl \/ CommitReplace

SpecTabs == InitTabs /\ [][NextTabs]_vars

(***************************************************************************)
(* The useLogout hook: the calls of logout, the cookies, the isLoggingOut  *)
(* flag, and what each call did, in order.                                 *)
(***************************************************************************)
\* most calls of logout
MaxLogoutCalls == 2

AUTH_TOKEN == "techverve_auth_token"
REFRESH_TOKEN == "techverve_refresh_token"
ROLE == "techverve_role"
MENTOR_ROLE == "techverve_mentor_role"

\* lines 30-35
AuthCookies == {AUTH_TOKEN, REFRESH_TOKEN, ROLE, MENTOR_ROLE}

\* the cookies of the page: each auth cookie is absent (Null) or has a value
CookieJars ==
    { [n \in AuthCookies |->
          IF n = REFRESH_TOKEN THEN r ELSE IF n \in others THEN Str(<<"v">>) ELSE Null] :
        r \in {Null, Str(<<>>), Str(<<"t">>), Str(<<"t", "=">>)},
        others \in SUBSET (AuthCookies \ {REFRESH_TOKEN}) }

\* the part of s before its first "=": split("=") keeps it as one element
RECURSIVE UpToEquals(_)
UpToEquals(s) ==
    IF s = <<>> \/ Head(s) = "=" THEN <<>> ELSE <<Head(s)>> \o UpToEquals(Tail(s))

\* lines 21-27
getRefreshToken(cookies) ==
    IF cookies[REFRESH_TOKEN] = Null THEN Null
    ELSE Str(UpToEquals(cookies[REFRESH_TOKEN].v))

\* lines 29-40
clearAuthCookies(cookies) == [n \in DOMAIN cookies |-> IF n \in AuthCookies THEN Null ELSE cookies[n]]

\* what postData rejects with: an error with the response of the server, or
\* one without a response
LogoutErrors ==
    { Plain(<<KEY_RESPONSE>>, <<Plain(<<KEY_STATUS>>, <<Num(405)>>)>>),
      Plain(<<KEY_RESPONSE>>, <<Plain(<<KEY_STATUS>>, <<Num(500)>>)>>),
      Plain(<<KEY_REQUEST>>, <<Plain(<<>>, <<>>)>>) }

Did(a, call, events) ==
    [a EXCEPT !.log = @ \o [i \in 1..Len(events) |-> [ev |-> events[i], call |-> call]]]

\* lines 49-51 and 62-64: the rest of the try block, then the finally block
LogoutFinishes(a, call) ==
    LET cleared == [a EXCEPT !.cookies = clearAuthCookies(@)]
        done == Did(cleared, call,
                    <<"clearAuthCookies", "toast.success">>
                    \o (IF a.redirectToLogin THEN <<"router.push">> ELSE <<>>))
    IN  [done EXCEPT !.isLoggingOut = FALSE, !.calls[call] = "settled"]

\* the catch block without clearAuthCookies when the status is 405
LogoutCatches_NoClearOn405(a, call, e) ==
    LET status == Get(Get(e, KEY_RESPONSE), KEY_STATUS)
        cleared == [a EXCEPT !.cookies = IF status # Num(405)
                                         THEN clearAuthCookies(@) ELSE @]
        done == Did(cleared, call,
                    <<"console.error",
                      IF status # Num(405) THEN "toast.error" ELSE "toast.success">>
                    \o (IF status # Num(405) THEN <<"clearAuthCookies">> ELSE <<>>)
                    \o (IF a.redirectToLogin THEN <<"router.push">> ELSE <<>>))
    IN  [done EXCEPT !.isLoggingOut = FALSE, !.calls[call] = "settled"]

\* lines 52-64: the catch block, then the finally block
LogoutCatches(a, call, e) ==
    LET status == Get(Get(e, KEY_RESPONSE), KEY_STATUS)
        cleared == [a EXCEPT !.cookies = clearAuthCookies(@)]
        done == Did(cleared, call,
                    <<"console.error",
                      IF status # Num(405) THEN "toast.error" ELSE "toast.success",
                      "clearAuthCookies">>
                    \o (IF a.redirectToLogin THEN <<"router.push">> ELSE <<>>))
    IN  [done EXCEPT !.isLoggingOut = FALSE, !.calls[call] = "settled"]

\* lines 14-19: the hook is used on a page with some cookies
InitLogout ==
    /\ \E cookies \in CookieJars, redirectToLogin \in BOOLEAN :
          auth = [cookies |-> cookies, redirectToLogin |-> redirectToLogin,
                  isLoggingOut |-> FALSE, calls |-> <<>>, log |-> <<>>]
    /\ error = Unused
    /\ result = Unused
    /\ pc = Unused
    /\ mut = Unused
    /\ bc = Unused
    /\ otpInput = Unused
    /\ modal = Unused
    /\ tabs = Unused
    /\ dropdown = Unused
    /\ accordion = Unused

\* lines 42-48: logout is called and runs up to its await, or to its end
\* when there is no refresh token to send
Logout ==
    /\ Len(auth.calls) < MaxLogoutCalls
    /\ LET call == Len(auth.calls) + 1
           started == [auth EXCEPT !.isLoggingOut = TRUE,
                                   !.calls = Append(@, "awaiting")]
       IN  auth' = IF Truthy(getRefreshToken(auth.cookies))
                   THEN Did(started, call, <<"postData">>)
                   ELSE LogoutFinishes(started, call)
    /\ UNCHANGED <<error, result, pc, mut, bc, otpInput, modal, tabs, dropdown,
                   accordion>>

\* line 47: the request of a call resolves
RequestResolves ==
    /\ \E call \in 1..Len(auth.calls) :
          /\ auth.calls[call] = "awaiting"
          /\ auth' = LogoutFinishes(Did(auth, call, <<"resolved">>), call)
    /\ UNCHANGED <<error, result, pc, mut, bc, otpInput, modal, tabs, dropdown,
                   accordion>>

\* line 47: the request of a call rejects
RequestRejects ==
    /\ \E call \in 1..Len(auth.calls), e \in LogoutErrors :
          /\ auth.calls[call] = "awaiting"
          /\ auth' = LogoutCatches(Did(auth, call, <<"rejected">>), call, e)
    /\ UNCHANGED <<error, result, pc, mut, bc, otpInput, modal, tabs, dropdown,
                   accordion>>

NextLogout == Logout \/ RequestResolves \/ RequestRejects

SpecLogout == InitLogout /\ [][NextLogout]_vars

(***************************************************************************)
(* The Dropdown component: the open menu, the selection, the search term   *)
(* and the timers of the debounced search.  Time passes in steps of        *)
(* TICK_MS milliseconds; a timer holds the time left until it fires.       *)
(***************************************************************************)
\* most changes of the search input
MaxKeystrokes == 3

\* the default of debounceDelay (line 73)
DEBOUNCE_DELAY_MS == 150

\* the options prop
DropdownOptions ==
    <<[label |-> <<"A", "b">>, value |-> 1], [label |-> <<"b">>, value |-> 2]>>

\* what the search input can hold
SearchTerms == {<<>>, <<"a">>, <<"A", " ", "b">>, <<"c">>}

ToLowerCase(text) == [i \in 1..Len(text) |-> LowerCase(text[i])]

\* String.prototype.split(" ")
RECURSIVE SplitSpaces(_)
SplitSpaces(text) ==
    IF \A i \in 1..Len(text) : text[i] # " " THEN <<text>>
    ELSE LET at == CHOOSE i \in 1..Len(text) :
                      text[i] = " " /\ \A j \in 1..(i - 1) : text[j] # " "
         IN  <<SubSeq(text, 1, at - 1)>> \o SplitSpaces(SubSeq(text, at + 1, Len(text)))

\* String.prototype.includes
Includes(text, word) ==
    \E i \in 0..(Len(text) - Len(word)) : SubSeq(text, i + 1, i + Len(word)) = word

\* lines 92-102: the options shown for a search term
FilterOptions(searchTerm) ==
    IF searchTerm = <<>> THEN DropdownOptions
    ELSE LET searchWords == SplitSpaces(ToLowerCase(searchTerm)) IN
         SelectSeq(DropdownOptions,
                   LAMBDA option :
                       \A w \in 1..Len(searchWords) :
                           Includes(ToLowerCase(option.label), searchWords[w]))

\* FilterOptions on the search terms, computed once
filteredOptions == [searchTerm \in SearchTerms |-> FilterOptions(searchTerm)]

\* handleSearch without the clearTimeout of lines 107-109
handleSearch_NoClear(d, value) ==
    LET id == d.keystrokes + 1 IN
    [d EXCEPT !.timers = @ \cup {[id |-> id, remaining |-> DEBOUNCE_DELAY_MS,
                                   value |-> value]},
              !.searchTimeout = id]

\* lines 105-116: handleSearch(value); a timer's id is the number of the
\* keystroke that started it, and searchTimeout 0 is null
handleSearch(d, value) ==
    LET id == d.keystrokes + 1 IN
    [d EXCEPT !.timers = {t \in @ : d.searchTimeout = 0 \/ t.id # d.searchTimeout}
                         \cup {[id |-> id, remaining |-> DEBOUNCE_DELAY_MS,
                                 value |-> value]},
              !.searchTimeout = id]

\* lines 119-138: handleOptionClick(option)
handleOptionClick(d, option) ==
    IF d.multiSelect
    THEN [d EXCEPT !.selected =
                      IF \E i \in 1..Len(@) : @[i] = option.value
                      THEN SelectSeq(@, LAMBDA v : v # option.value)
                      ELSE Append(@, option.value),
                   !.searchTerm = <<>>]
    ELSE [d EXCEPT !.selected = <<option.value>>, !.isOpen = FALSE,
                   !.searchTerm = <<>>]

\* lines 78-89: the first render
InitDropdown ==
    /\ \E multiSelect \in BOOLEAN, isTypeable \in BOOLEAN :
          dropdown = [multiSelect |-> multiSelect, isTypeable |-> isTypeable,
                      isOpen |-> FALSE, selected |-> <<>>, searchTerm |-> <<>>,
                      timers |-> {}, searchTimeout |-> 0,
                      keystrokes |-> 0, typed |-> <<>>,
                      sinceKey |-> DEBOUNCE_DELAY_MS, applied |-> 0,
                      clicked |-> FALSE, last |-> "render"]
    /\ error = Unused
    /\ result = Unused
    /\ pc = Unused
    /\ mut = Unused
    /\ bc = Unused
    /\ otpInput = Unused
    /\ modal = Unused
    /\ tabs = Unused
    /\ auth = Unused
    /\ accordion = Unused

\* line 192: the button opens or closes the menu
ToggleMenu ==
    /\ dropdown' = [dropdown EXCEPT !.isOpen = ~@, !.last = "toggle"]
    /\ UNCHANGED <<error, result, pc, mut, bc, otpInput, modal, tabs, auth,
                   accordion>>

\* lines 141-153: a mouse press outside the open dropdown closes it
PressOutside ==
    /\ dropdown.isOpen
    /\ dropdown' = [dropdown EXCEPT !.isOpen = FALSE, !.last = "outside"]
    /\ UNCHANGED <<error, result, pc, mut, bc, otpInput, modal, tabs, auth,
                   accordion>>

\* line 225: the user changes the text of the search input
TypeSearch ==
    /\ dropdown.isOpen
    /\ dropdown.isTypeable
    /\ dropdown.keystrokes < MaxKeystrokes
    /\ \E value \in SearchTerms \ {dropdown.typed} :
          dropdown' = [handleSearch(dropdown, value) EXCEPT
                          !.keystrokes = @ + 1, !.typed = value, !.sinceKey = 0,
                          !.applied = 0, !.clicked = FALSE, !.last = "type"]
    /\ UNCHANGED <<error, result, pc, mut, bc, otpInput, modal, tabs, auth,
                   accordion>>

\* line 244: the user clicks one of the options shown
ClickOption ==
    /\ dropdown.isOpen
    /\ \E i \in 1..Len(filteredOptions[dropdown.searchTerm]) :
          dropdown' = [handleOptionClick(dropdown,
                                         filteredOptions[dropdown.searchTerm][i])
                          EXCEPT !.clicked = TRUE, !.last = "option"]
    /\ UNCHANGED <<error, result, pc, mut, bc, otpInput, modal, tabs, auth,
                   accordion>>

\* lines 110-113: a timer of the search fires
SearchTimerFires ==
    /\ \E t \in dropdown.timers :
          /\ t.remaining = 0
          /\ dropdown' = [dropdown EXCEPT !.searchTerm = t.value,
                                           !.searchTimeout = 0,
                                           !.timers = @ \ {t},
                                           !.applied = @ + 1,
                                           !.last = "timer"]
    /\ UNCHANGED <<error, result, pc, mut, bc, otpInput, modal, tabs, auth,
                   accordion>>

\* TICK_MS milliseconds pass: a timer is running and none is due
TickSearch ==
    /\ dropdown.timers # {}
    /\ \A t \in dropdown.timers : t.remaining # 0
    /\ dropdown' = [dropdown EXCEPT
                       !.timers = {[t EXCEPT !.remaining = @ - TICK_MS] : t \in @},
                       !.sinceKey = IF @ + TICK_MS > DEBOUNCE_DELAY_MS
                                    THEN DEBOUNCE_DELAY_MS ELSE @ + TICK_MS,
                       !.last = "tick"]
    /\ UNCHANGED <<error, result, pc, mut, bc, otpInput, modal, tabs, auth,
                   accordion>>

NextDropdown ==
    ToggleMenu \/ PressOutside \/ TypeSearch \/ ClickOption \/ SearchTimerFires
    \/ TickSearch

SpecDropdown == InitDropdown /\ [][NextDropdown]_vars

(***************************************************************************)
(* The Accordion component: the set of open items.                         *)
(***************************************************************************)
\* longest items list
MaxAccordionItems == 4

\* toggleItem without the clear of line 105
toggleItem_NoClear(openItems, index, allowMultiple) ==
    IF index \in openItems THEN openItems \ {index} ELSE openItems \cup {index}

\* lines 98-112: the set that toggleItem(index) makes of openItems
toggleItem(openItems, index, allowMultiple) ==
    IF index \in openItems THEN openItems \ {index}
    ELSE (IF ~allowMultiple THEN {} ELSE openItems) \cup {index}

\* lines 91-96: the first render, no item open
InitAccordion ==
    /\ \E count \in 1..MaxAccordionItems, allowMultiple \in BOOLEAN :
          accordion = [count |-> count, allowMultiple |-> allowMultiple,
                       openItems |-> {}, before |-> {}, toggled |-> 0 - 1]
    /\ error = Unused
    /\ result = Unused
    /\ pc = Unused
    /\ mut = Unused
    /\ bc = Unused
    /\ otpInput = Unused
    /\ modal = Unused
    /\ tabs = Unused
    /\ auth = Unused
    /\ dropdown = Unused

\* line 122: the header of an item is clicked
ToggleItem ==
    /\ \E index \in 0..(accordion.count - 1) :
          accordion' = [accordion EXCEPT
                           !.openItems = toggleItem(@, index, accordion.allowMultiple),
                           !.before = accordion.openItems,
                           !.toggled = index]
    /\ UNCHANGED <<error, result, pc, mut, bc, otpInput, modal, tabs, auth,
                   dropdown>>

NextAccordion == ToggleItem

SpecAccordion == InitAccordion /\ [][NextAccordion]_vars

(***************************************************************************)
(* Properties of handleGenericError.                                       *)
(***************************************************************************)
Done == pc = "done"

\* error.response, error.response.data, error.response.status, error.request
\* and error.message of the input of the call
ErrResponse == Get(error, KEY_RESPONSE)
ErrData == Get(ErrResponse, KEY_DATA)
ErrStatus == Get(ErrResponse, KEY_STATUS)
ErrRequest == Get(error, KEY_REQUEST)
ErrMessage == Get(error, KEY_MESSAGE)

\* v carries the field key: the property is there and holds something other
\* than undefined (null, 0, false and "" included)
Carries(v, key) == Get(v, key) # Undef

NonEmptyArray(v) == IsArray(v) /\ Len(v.v) > 0

\* C1: for every input, the value a call returns is a string of length
\* greater than 0.
C1_ReturnsNonEmptyString ==
    (Done /\ result.k = "return") =>
        (result.v.t = "string" /\ Len(result.v.v) > 0)

\* C2: for every input, a call completes by returning; it never throws,
\* also when element 0 of a message or detail array has to be JSON-encoded.
C2_NeverThrows == Done => result.k = "return"

\* The rules of C3 in their order, each with the condition the source tests
\* and the outcome it gives.
RuleApplies(i, e) ==
    CASE i = 1 -> Truthy(Get(e, KEY_RESPONSE))
      [] i = 2 -> Truthy(Get(e, KEY_REQUEST))
      [] i = 3 -> InstanceOfTypeError(e) /\ Get(e, KEY_MESSAGE) = Str(FAILED_TO_FETCH)
      [] i = 4 -> NonBlankString(e)
      [] i = 5 -> NonBlankString(Get(e, KEY_MESSAGE))
      [] i = 6 -> NonEmptyArray(e)
      [] OTHER -> TRUE

FirstRule(e) ==
    CHOOSE i \in 1..7 : RuleApplies(i, e) /\ \A j \in 1..(i - 1) : ~RuleApplies(j, e)

\* the outcome of rule 1 on an input that has the response field of e and
\* no other field
ResponseOutcome(e) == ResponseBranch(Plain(<<KEY_RESPONSE>>, <<Get(e, KEY_RESPONSE)>>))

RuleOutcome(i, e) ==
    CASE i = 1 -> ResponseOutcome(e)
      [] i = 2 -> Return(Str(MSG_NO_RESPONSE))
      [] i = 3 -> Return(Str(MSG_NETWORK))
      [] i = 4 -> Return(e)
      [] i = 5 -> Return(Get(e, KEY_MESSAGE))
      [] i = 6 -> IF NonBlankString(At(e, 0)) THEN Return(At(e, 0))
                  ELSE IF NonBlankString(Get(At(e, 0), KEY_MESSAGE))
                  THEN Return(Get(At(e, 0), KEY_MESSAGE))
                  ELSE Return(Str(MSG_UNKNOWN))
      [] OTHER -> Return(Str(MSG_UNKNOWN))

\* C3 as stated: an input that carries a response field always gets the
\* outcome of rule 1, even when it also has request or message fields.
C3_ResponseFieldAlwaysRule1 ==
    (Done /\ Carries(error, KEY_RESPONSE)) => result = ResponseOutcome(error)

\* C3 as amended: the outcome of a call is the outcome of the first rule, in
\* the order 1..7, whose condition the input meets, where a response field
\* counts for rule 1 only if it holds a truthy value; the outcome of rule 1
\* is determined by the response field alone.
C3_FirstRuleDecides == Done => result = RuleOutcome(FirstRule(error), error)

\* an input with a truthy response, a truthy request and a non-blank message
\* got the status fallback of its response
C3_Witness ==
    /\ Done
    /\ Truthy(ErrResponse) /\ Truthy(ErrRequest) /\ NonBlankString(ErrMessage)
    /\ ErrStatus = Num(404)
    /\ result = Return(Str(MSG_NOT_FOUND))

\* the call took the response branch and its body is a non-null object
ObjectBodyCase == Done /\ Truthy(ErrResponse) /\ TypeOf(ErrData) = "object" /\ ErrData # Null

DataMessage == Get(ErrData, KEY_MESSAGE)
DataDetail == Get(ErrData, KEY_DETAIL)

\* element 0 of a non-empty array as the result: the element itself if it is
\* a string, otherwise what JSON.stringify makes of it
ElementZero(a) ==
    IF At(a, 0).t = "string" THEN Return(At(a, 0)) ELSE JSONstringify(At(a, 0))

\* the field scan by explicit iteration: the values in key order, and within
\* an array value its elements in order; undefined when nothing qualifies
RECURSIVE ScanFields(_, _)
ScanFields(vs, i) ==
    IF i > Len(vs)
    THEN Undef
    ELSE LET v == vs[i]
             hit == IF IsArray(v)
                    THEN IF \E j \in 1..Len(v.v) : NonBlankString(v.v[j])
                         THEN v.v[CHOOSE j \in 1..Len(v.v) :
                                    /\ NonBlankString(v.v[j])
                                    /\ \A h \in 1..(j - 1) : ~NonBlankString(v.v[h])]
                         ELSE Undef
                    ELSE IF NonBlankString(v) THEN v ELSE Undef
         IN IF hit # Undef THEN hit ELSE ScanFields(vs, i + 1)

\* the outcome of the field scan of the body, with the status fallback when
\* no field value qualifies
ScanOutcome ==
    IF ScanFields(Values(ErrData), 1) # Undef
    THEN Return(ScanFields(Values(ErrData), 1))
    ELSE StatusFallback(ErrStatus)

\* C4: when response.data is a non-null object the message source is chosen
\* in the strict order: data.message if a non-blank string, else data.detail
\* if a non-blank string, else data.message if a non-empty array, else
\* data.detail if a non-empty array, else the field scan.
C4_SourceOrder ==
    ObjectBodyCase =>
        /\ NonBlankString(DataMessage) => result = Return(DataMessage)
        /\ (~NonBlankString(DataMessage) /\ NonBlankString(DataDetail))
              => result = Return(DataDetail)
        /\ (~NonBlankString(DataMessage) /\ ~NonBlankString(DataDetail)
               /\ NonEmptyArray(DataMessage))
              => result = ElementZero(DataMessage)
        /\ (~NonBlankString(DataMessage) /\ ~NonBlankString(DataDetail)
               /\ ~NonEmptyArray(DataMessage) /\ NonEmptyArray(DataDetail))
              => result = ElementZero(DataDetail)
        /\ (~NonBlankString(DataMessage) /\ ~NonBlankString(DataDetail)
               /\ ~NonEmptyArray(DataMessage) /\ ~NonEmptyArray(DataDetail))
              => result = ScanOutcome

\* a non-blank string detail won over a non-empty array message whose element
\* 0 is another non-blank string
C4_Witness ==
    /\ ObjectBodyCase
    /\ NonEmptyArray(DataMessage) /\ NonBlankString(At(DataMessage, 0))
    /\ NonBlankString(DataDetail) /\ At(DataMessage, 0) # DataDetail
    /\ result = Return(DataDetail)

\* the five status fallbacks of C5
StatusMessage(status) ==
    CASE status = Num(401) -> MSG_UNAUTHORIZED
      [] status = Num(403) -> MSG_FORBIDDEN
      [] status = Num(404) -> MSG_NOT_FOUND
      [] status = Num(500) -> MSG_SERVER_ERROR
      [] OTHER -> MSG_GENERIC

\* the body yields no usable message, as C5 lists the cases: absent or null,
\* a blank string, a non-string non-object value, or an object whose
\* one-level-flattened field values contain no non-blank string
NoUsableBody(data) ==
    \/ data \in {Undef, Null}
    \/ TypeOf(data) = "string" /\ ~NonBlankString(data)
    \/ TypeOf(data) \notin {"string", "object"}
    \/ /\ TypeOf(data) = "object" /\ data # Null
       /\ ScanFields(Values(data), 1) = Undef

\* C5 as stated, for a response field that holds a truthy value and a call
\* that returned a non-empty string: when the body yields no usable message,
\* the result is the status fallback of response.status.
C5_StatusFallbackWhenNoUsableBody ==
    (Done /\ Truthy(ErrResponse) /\ NoUsableBody(ErrData)
          /\ result.k = "return" /\ NonBlankString(result.v))
        => result = Return(Str(StatusMessage(ErrStatus)))

\* C5 as amended: when the response field holds a truthy value and the body
\* yields no usable message, where an object body also has neither a
\* message nor a detail that is a non-empty array, the result is the status
\* fallback of response.status.
C5_StatusFallback ==
    (Done /\ Truthy(ErrResponse) /\ NoUsableBody(ErrData)
          /\ ~NonEmptyArray(DataMessage) /\ ~NonEmptyArray(DataDetail))
        => result = Return(Str(StatusMessage(ErrStatus)))

\* a body whose only string lies two array levels deep got the fallback of
\* status 500
C5_Witness ==
    /\ Done
    /\ ErrStatus = Num(500)
    /\ ErrData = Plain(<<KEY_EMAIL>>, <<Arr(<<Arr(<<Str(<<"a">>)>>)>>)>>)
    /\ result = Return(Str(MSG_SERVER_ERROR))

\* C6: when response.data is a non-null object with no usable message or
\* detail string or array, the values of data are walked in key order,
\* arrays flattened exactly one level, and the first non-blank string is
\* returned; strings two or more array levels deep are skipped.
C6_FieldScan ==
    (ObjectBodyCase
       /\ ~NonBlankString(DataMessage) /\ ~NonBlankString(DataDetail)
       /\ ~NonEmptyArray(DataMessage) /\ ~NonEmptyArray(DataDetail))
        => result = ScanOutcome

\* the first field holds a string two levels deep and then a string one
\* level deep, the second field a plain string: the one-level string won
C6_Witness ==
    /\ ObjectBodyCase
    /\ Get(ErrData, KEY_EMAIL) = Arr(<<Arr(<<Str(<<"b">>)>>), Str(<<"a">>)>>)
    /\ Get(ErrData, KEY_NAME) = Str(<<"b">>)
    /\ ~NonEmptyArray(DataMessage) /\ ~NonBlankString(DataMessage)
    /\ result = Return(Str(<<"a">>))

\* the call returned a string that is x itself if x is a string and the JSON
\* encoding of x otherwise
IsElementOrItsJSON(x) ==
    /\ result.k = "return"
    /\ result.v.t = "string"
    /\ x.t = "string" => result.v = x
    /\ x.t # "string" => JSONstringify(x) = Return(result.v)

\* C7: when data.message is a non-empty array and neither data.message nor
\* data.detail is a non-blank string, the result is element 0 of that array,
\* itself if it is a string and JSON-encoded otherwise; the same for
\* data.detail when data.message is not a non-empty array.
C7_ElementZeroOrItsJSON ==
    (ObjectBodyCase /\ ~NonBlankString(DataMessage) /\ ~NonBlankString(DataDetail))
        => /\ NonEmptyArray(DataMessage) => IsElementOrItsJSON(At(DataMessage, 0))
           /\ (~NonEmptyArray(DataMessage) /\ NonEmptyArray(DataDetail))
                 => IsElementOrItsJSON(At(DataDetail, 0))

\* C8: when the input has a response field whose data is a non-blank string,
\* that string is returned unchanged, whatever the status and the other
\* fields of the input are.
C8_StringBodyVerbatim ==
    (Done /\ ErrResponse.t = "object" /\ NonBlankString(ErrData))
        => result = Return(ErrData)

\* a body with trailing white space came back untrimmed, from an input that
\* also has a request, a message and a status with a fallback of its own
C8_Witness ==
    /\ Done
    /\ ErrData = Str(<<"a", " ">>)
    /\ ErrStatus = Num(500)
    /\ Truthy(ErrRequest) /\ NonBlankString(ErrMessage)
    /\ result = Return(Str(<<"a", " ">>))

\* C9 as stated: when the input has a request field and no response, the
\* result is exactly the no-response message, also with a non-blank message
\* field or for a TypeError with the message "Failed to fetch".
C9_RequestFieldNoResponse ==
    (Done /\ Carries(error, KEY_REQUEST) /\ ~Carries(error, KEY_RESPONSE))
        => result = Return(Str(MSG_NO_RESPONSE))

\* C9 as amended: when the request field holds a truthy value and the
\* response field does not, the result is exactly the no-response message,
\* also with a non-blank message field or for a TypeError with the message
\* "Failed to fetch".
C9_TruthyRequestNoResponse ==
    (Done /\ Truthy(ErrRequest) /\ ~Truthy(ErrResponse))
        => result = Return(Str(MSG_NO_RESPONSE))

\* a TypeError "Failed to fetch" with a request and no response got the
\* no-response message
C9_Witness ==
    /\ Done
    /\ InstanceOfTypeError(error) /\ ErrMessage = Str(FAILED_TO_FETCH)
    /\ Truthy(ErrRequest) /\ ~Truthy(ErrResponse)
    /\ result = Return(Str(MSG_NO_RESPONSE))

\* C10: when the input is a non-empty array, only element 0 is inspected: a
\* non-blank string element 0 is returned, else a non-blank string message
\* of element 0, else the generic message, even if a later element carries
\* a usable message.
C10_OnlyElementZero ==
    (Done /\ NonEmptyArray(error))
        => result = IF NonBlankString(At(error, 0)) THEN Return(At(error, 0))
                    ELSE IF NonBlankString(Get(At(error, 0), KEY_MESSAGE))
                    THEN Return(Get(At(error, 0), KEY_MESSAGE))
                    ELSE Return(Str(MSG_UNKNOWN))

\* element 0 is unusable and element 1 has a non-blank message: the result
\* is the generic message
C10_Witness ==
    /\ Done
    /\ NonEmptyArray(error) /\ Len(error.v) > 1
    /\ ~NonBlankString(At(error, 0)) /\ ~NonBlankString(Get(At(error, 0), KEY_MESSAGE))
    /\ NonBlankString(Get(At(error, 1), KEY_MESSAGE))
    /\ result = Return(Str(MSG_UNKNOWN))

\* C11: when the input is an object without response and without request,
\* is no "Failed to fetch" TypeError and has a message that is a non-blank
\* string, that message is returned unchanged.
C11_MessageFieldVerbatim ==
    (Done /\ error.t = "object"
          /\ ~Carries(error, KEY_RESPONSE) /\ ~Carries(error, KEY_REQUEST)
          /\ ~(InstanceOfTypeError(error) /\ ErrMessage = Str(FAILED_TO_FETCH))
          /\ NonBlankString(ErrMessage))
        => result = Return(ErrMessage)

\* a message with leading white space came back untrimmed
C11_Witness ==
    /\ Done
    /\ error.t = "object"
    /\ ~Carries(error, KEY_RESPONSE) /\ ~Carries(error, KEY_REQUEST)
    /\ ErrMessage = Str(<<" ", "a">>)
    /\ result = Return(Str(<<" ", "a">>))

\* C12: for every input that is itself a string with at least one
\* non-whitespace character, exactly that string is returned.
C12_StringInputIdentity ==
    (Done /\ NonBlankString(error)) => result = Return(error)

\* a string with white space around its text came back as it is
C12_Witness ==
    /\ Done
    /\ error = Str(<<" ", "b">>)
    /\ result = Return(error)

\* the input has neither a truthy response nor a truthy request
NoResponseNoRequest == ~Truthy(ErrResponse) /\ ~Truthy(ErrRequest)

\* C13 as stated: without response and request, a TypeError whose message is
\* exactly "Failed to fetch" gets the network message; a TypeError with any
\* other message, and a non-TypeError object with the message "Failed to
\* fetch", is resolved by the message-field rule, which returns the message.
C13_FetchTypeErrorOnly ==
    (Done /\ ~Carries(error, KEY_RESPONSE) /\ ~Carries(error, KEY_REQUEST)
          /\ error.t = "object")
        => /\ (InstanceOfTypeError(error) /\ ErrMessage = Str(FAILED_TO_FETCH))
                 => result = Return(Str(MSG_NETWORK))
           /\ (InstanceOfTypeError(error) /\ ErrMessage.t = "string"
                  /\ ErrMessage # Str(FAILED_TO_FETCH))
                 => result = Return(ErrMessage)
           /\ (~InstanceOfTypeError(error) /\ ErrMessage = Str(FAILED_TO_FETCH))
                 => result = Return(ErrMessage)

\* C13 as amended: without response and request, a TypeError whose message is
\* exactly "Failed to fetch" gets the network message; a TypeError with any
\* other non-blank message, and a non-TypeError object with the message
\* "Failed to fetch", gets its own message; a TypeError whose message is
\* blank gets the generic message of rule 7.
C13_FetchTypeError ==
    (Done /\ NoResponseNoRequest /\ error.t = "object")
        => /\ (InstanceOfTypeError(error) /\ ErrMessage = Str(FAILED_TO_FETCH))
                 => result = Return(Str(MSG_NETWORK))
           /\ (InstanceOfTypeError(error) /\ NonBlankString(ErrMessage)
                  /\ ErrMessage # Str(FAILED_TO_FETCH))
                 => result = Return(ErrMessage)
           /\ (InstanceOfTypeError(error) /\ ErrMessage.t = "string"
                  /\ ~NonBlankString(ErrMessage))
                 => result = Return(Str(MSG_UNKNOWN))
           /\ (~InstanceOfTypeError(error) /\ ErrMessage = Str(FAILED_TO_FETCH))
                 => result = Return(ErrMessage)

\* a TypeError with another message got that message, not the network one
C13_Witness ==
    /\ Done
    /\ NoResponseNoRequest
    /\ InstanceOfTypeError(error) /\ ErrMessage = Str(<<"a">>)
    /\ result = Return(Str(<<"a">>))

\* element 0 of an array input yields a message
UsableElementZero(e) ==
    NonBlankString(At(e, 0)) \/ NonBlankString(Get(At(e, 0), KEY_MESSAGE))

\* C14: every input that meets none of rules 1-6 (for an array: whose element
\* 0 is neither a non-blank string nor an object with a non-blank string
\* message) yields exactly the generic message.
C14_GenericFallback ==
    (Done /\ (\A i \in 1..5 : ~RuleApplies(i, error))
          /\ (NonEmptyArray(error) => ~UsableElementZero(error)))
        => result = Return(Str(MSG_UNKNOWN))

\* a whitespace-only string input got the generic message
C14_Witness ==
    /\ Done
    /\ error = Str(<<" ", " ">>)
    /\ result = Return(Str(MSG_UNKNOWN))

(***************************************************************************)
(* Properties of the mutation hooks.                                       *)
(***************************************************************************)
\* the entries of the log that are calls of fn
CallsOf(fn) == SelectSeq(mut.log, LAMBDA x : x.ev = fn)

\* C16: for each mutation hook and any options of the caller, a failed
\* mutation shows exactly one error toast, whose text is
\* handleGenericError(error), and then re-raises an Error carrying that same
\* text. Stated for the errors that handleGenericError turns into a
\* non-blank string and for options whose onError is absent or a function.
C16_OneToastThenRethrow ==
    (mut.phase = "error"
       /\ mut.options.onError # "undefined"
       /\ handleGenericError(mut.settled.cause).k = "return"
       /\ NonBlankString(handleGenericError(mut.settled.cause).v))
        => LET text == handleGenericError(mut.settled.cause).v IN
           /\ CallsOf("toast.error") = <<[ev |-> "toast.error", text |-> text]>>
           /\ mut.settled.raised = [k |-> "Error", message |-> text]

\* what invalidateQueries is called with for a key: an array as given, any
\* other key in a one-element array
InvalidatedKey(queryKey) == IF IsArray(queryKey) THEN queryKey ELSE Arr(<<queryKey>>)

\* C22: when a mutation succeeds and queryKey is non-empty, the queries for
\* queryKey are invalidated, and then the caller's options.onSuccess, if
\* supplied, is called with the response; the invalidation happens whether
\* or not options.onSuccess was supplied. Stated for options whose onSuccess
\* is absent or a function.
C22_InvalidateThenOnSuccess ==
    (mut.phase = "success"
       /\ mut.options.onSuccess # "undefined"
       /\ mut.queryKey \notin {Undef, Str(<<>>)})
        => mut.log =
             <<[ev |-> "invalidateQueries", key |-> InvalidatedKey(mut.queryKey)]>>
             \o (IF mut.options.onSuccess = "function"
                 THEN <<[ev |-> "options.onSuccess", arg |-> mut.settled.v]>>
                 ELSE <<>>)

\* C23: when a mutation fails and the caller supplied options.onError, that
\* callback is invoked with the error after the centralized error handler
\* has shown its toast. Stated for the errors that handleGenericError turns
\* into a string.
C23_OnErrorAfterToast ==
    (mut.phase = "error"
       /\ mut.options.onError = "function"
       /\ handleGenericError(mut.settled.cause).k = "return"
       /\ TypeOf(handleGenericError(mut.settled.cause).v) = "string")
        => \E i, j \in 1..Len(mut.log) :
              /\ i < j
              /\ mut.log[i].ev = "toast.error"
              /\ mut.log[j] = [ev |-> "options.onError", arg |-> mut.settled.cause]

(***************************************************************************)
(* Properties of the Breadcrumbs component.                                *)
(***************************************************************************)
\* C17: for every items list and every positive maxItems the component
\* displays at most maxItems entries, the home entry and the "..." entry
\* counted.
C17_AtMostMaxItems ==
    (bc.props.maxItems > 0) => Len(bc.entries) <= bc.props.maxItems

LastIndex == Len(bc.entries) - 1

Activating == bc.gesture \in {"click", "Enter", " "}

\* C18: a click, Enter or Space on the last displayed entry neither calls
\* its onClick nor navigates; on an earlier entry that has an onClick or an
\* href the same gesture calls the onClick if there is one and otherwise
\* navigates to the href.
C18_LastEntryNotActionable ==
    Activating =>
        LET entry == bc.entries[bc.target + 1] IN
        /\ bc.target = LastIndex => bc.effects = <<>>
        /\ (bc.target < LastIndex /\ entry.onClick # NoHandler)
              => bc.effects = <<[ev |-> "onClick", handler |-> entry.onClick]>>
        /\ (bc.target < LastIndex /\ entry.onClick = NoHandler /\ entry.href # NoHref)
              => bc.effects = <<[ev |-> "navigate", href |-> entry.href]>>

C18_Witness ==
    /\ bc.gesture = "click"
    /\ Len(bc.entries) >= 2
    /\ bc.target = LastIndex
    /\ bc.entries[bc.target + 1].onClick # NoHandler
    /\ bc.entries[bc.target + 1].href # NoHref
    /\ bc.effects = <<>>

(***************************************************************************)
(* Properties of the OtpInput component.                                   *)
(***************************************************************************)
AllFilled == \A i \in 1..otpInput.length : otpInput.otp[i] # <<>>

\* the last event was an input or a paste whose text is not made of digits
NonDigitEvent ==
    \/ otpInput.event.kind = "change" /\ ~DigitsOnly(otpInput.event.value)
    \/ otpInput.event.kind = "paste" /\ ~DigitsOnly(otpInput.event.text)

\* C19: a non-digit input or a non-digit paste never triggers onComplete
\* (and changes nothing); onComplete is called exactly on the changes that
\* leave all boxes filled, with the boxes' concatenation.
C19_NonDigitNeverCompletes ==
    NonDigitEvent => otpInput.calls = <<>>

\* the last event was an input that is not made of digits, or a paste with
\* a non-digit among its first length characters
RejectedEvent ==
    \/ otpInput.event.kind = "change" /\ ~DigitsOnly(otpInput.event.value)
    \/ otpInput.event.kind = "paste"
          /\ ~DigitsOnly(SubSeq(otpInput.event.text, 1,
                                 IF Len(otpInput.event.text) < otpInput.length
                                 THEN Len(otpInput.event.text) ELSE otpInput.length))

AcceptedEvent == otpInput.event.kind \in {"change", "paste"} /\ ~RejectedEvent

C19_CallsWhenFilled ==
    /\ otpInput.calls = IF AcceptedEvent /\ AllFilled
                        THEN <<Join(otpInput.otp)>> ELSE <<>>
    /\ \A i \in 1..Len(otpInput.calls) :
          /\ Len(otpInput.calls[i]) = otpInput.length
          /\ DigitsOnly(otpInput.calls[i])
    /\ \A i \in 1..otpInput.length : Len(otpInput.otp[i]) <= 1

C19_RejectedChangesNothing ==
    RejectedEvent' => otpInput'.otp = otpInput.otp

\* C19 (amended): a paste is cut to its first length characters; an input
\* that is not made of digits, or a paste with a non-digit among those
\* characters, changes no box and calls nothing; onComplete is called
\* exactly on the accepted changes that leave all boxes filled, with the
\* concatenation of the boxes: length decimal digits.
C19_OnCompleteWhenFilled ==
    []C19_CallsWhenFilled /\ [][C19_RejectedChangesNothing]_vars

C19_Witness ==
    /\ otpInput.length = 2
    /\ otpInput.event = [kind |-> "change", value |-> <<"1">>]
    /\ otpInput.otp = <<<<"2">>, <<"1">>>>
    /\ otpInput.calls = <<<<"2", "1">>>>

(***************************************************************************)
(* Properties of the Modal's Backdrop.                                     *)
(***************************************************************************)
\* C20: whenever show is true and the effect has run, the backdrop is
\* displayed (visible is true), whatever the changes of show were and
\* whenever they came.
C20_VisibleWhileShown ==
    (modal.show /\ ~modal.pending) => modal.visible

(***************************************************************************)
(* Properties of the Tabs component.                                       *)
(***************************************************************************)
\* nothing is left to happen without the user: no navigation waits
TabsAtRest == tabs.pending = <<>>

TabsInSync == tabs.url = ActiveLabel(tabs)

\* C21: with activateParams, from any starting point, tab click or URL
\* change, the two effects bring the component to rest with the URL
\* parameter equal to the formatted label of the active tab: whenever the
\* mounted component is at rest, the two agree.
C21_AtRestInSync ==
    (tabs.mounted /\ tabs.activateParams /\ TabsAtRest) => TabsInSync

\* C28: a tab marked inActive never becomes the active tab: a click on it
\* changes neither activeTab nor the URL and calls no onTabChange (only an
\* info toast is shown), and after any clicks and URL changes activeTab
\* never indexes a tab whose inActive is true.
C28_InActiveNeverActivated ==
    [][(tabs.mounted /\ tabs'.activeTab # tabs.activeTab)
          => ~tabs'.list[tabs'.activeTab + 1].inActive]_vars

(***************************************************************************)
(* Properties of the useLogout hook.                                       *)
(***************************************************************************)
InFlight == {call \in 1..Len(auth.calls) : auth.calls[call] = "awaiting"}

\* C24: isLoggingOut is true whenever at least one logout call is in flight
\* and false whenever none is, for any interleaving of overlapping calls.
C24_FlagIffInFlight ==
    auth.isLoggingOut <=> (InFlight # {})

\* the positions in the log of what a call did
Positions(call, ev) ==
    {i \in 1..Len(auth.log) : auth.log[i] = [ev |-> ev, call |-> call]}

\* C25: every call of logout expires the four auth cookies before it
\* settles, whether no request was sent, the request succeeded or it failed
\* with any status, 405 included; the call clears them only after its
\* request, if it sent one, has settled, and before its redirect, which
\* follows when redirectToLogin is true.
C25_CookiesClearedBeforeSettling ==
    \A call \in 1..Len(auth.calls) :
        auth.calls[call] = "settled" =>
            /\ \A n \in AuthCookies : auth.cookies[n] = Null
            /\ Cardinality(Positions(call, "clearAuthCookies")) = 1
            /\ \A c \in Positions(call, "clearAuthCookies") :
                  /\ \A p \in Positions(call, "postData") :
                        \E r \in Positions(call, "resolved")
                                    \cup Positions(call, "rejected") : p < r /\ r < c
                  /\ \A r \in Positions(call, "router.push") : c < r
            /\ Cardinality(Positions(call, "router.push"))
                  = IF auth.redirectToLogin THEN 1 ELSE 0

C25_Witness ==
    /\ Len(auth.calls) = 1
    /\ auth.calls[1] = "settled"
    /\ auth.redirectToLogin
    /\ [i \in 1..Len(auth.log) |-> auth.log[i].ev]
         = <<"postData", "rejected", "console.error", "toast.success",
             "clearAuthCookies", "router.push">>

(***************************************************************************)
(* Properties of the Dropdown component.                                   *)
(***************************************************************************)
\* C26: after an option is clicked the search term is empty and stays empty
\* until the user types again: a timer still pending at the click never
\* sets the search term afterwards.
C26_EmptyAfterOptionClick ==
    dropdown.clicked => dropdown.searchTerm = <<>>

\* since the last keystroke no timer has fired
Waiting == dropdown.keystrokes > 0 /\ dropdown.applied = 0

C27_OneTimer ==
    /\ Cardinality(dropdown.timers) <= 1
    /\ dropdown.applied <= 1
    /\ Waiting =>
          dropdown.timers = {[id |-> dropdown.keystrokes,
                              remaining |-> DEBOUNCE_DELAY_MS - dropdown.sinceKey,
                              value |-> dropdown.typed]}
    /\ ~Waiting => dropdown.timers = {}

C27_AppliesLastValueInTime ==
    dropdown'.last = "timer" /\ dropdown' # dropdown
        => /\ dropdown'.searchTerm = dropdown.typed
           /\ dropdown.sinceKey = DEBOUNCE_DELAY_MS

\* C27: at most one search timer is pending at any time, each keystroke
\* cancels the pending one, and after a burst of keystrokes the search term
\* is set once, to the last typed value, debounceDelay after the last
\* keystroke; intermediate values are never applied.
C27_Debounced ==
    []C27_OneTimer /\ [][C27_AppliesLastValueInTime]_vars

C27_Witness ==
    /\ dropdown.keystrokes = 3
    /\ dropdown.last = "timer"
    /\ dropdown.typed = <<"A", " ", "b">>
    /\ dropdown.searchTerm = <<"A", " ", "b">>
    /\ dropdown.applied = 1

(***************************************************************************)
(* Properties of the Accordion component.                                  *)
(***************************************************************************)
Toggled == accordion.toggled >= 0

\* C29: with allowMultiple false at most one item is open in every
\* reachable state: toggling a closed item opens it and closes every other
\* item, toggling the open item closes it; with allowMultiple true a toggle
\* changes only that item's membership in the open set, so toggling the
\* same item twice restores the open set.
C29_ToggleItem ==
    /\ ~accordion.allowMultiple => Cardinality(accordion.openItems) <= 1
    /\ (Toggled /\ ~accordion.allowMultiple) =>
          accordion.openItems = IF accordion.toggled \in accordion.before
                                THEN {} ELSE {accordion.toggled}
    /\ (Toggled /\ accordion.allowMultiple) =>
          /\ accordion.openItems \ {accordion.toggled}
                = accordion.before \ {accordion.toggled}
          /\ (accordion.toggled \in accordion.openItems)
                <=> (accordion.toggled \notin accordion.before)
          /\ toggleItem(accordion.openItems, accordion.toggled, TRUE)
                = accordion.before

C29_Witness ==
    /\ ~accordion.allowMultiple
    /\ accordion.before = {0}
    /\ accordion.toggled = 1
    /\ accordion.openItems = {1}

====
